---- MODULE Spec2Model ----
(***************************************************************************)
(* A model of the agent execution core of nishi-magic (DevWeaver): the     *)
(* Tool Registry, the Agent Engine loop (runAgent), the keyword router     *)
(* (quickRoute), the stdio JSON-RPC server (DevWeaverMCPServer) and the    *)
(* stdio JSON-RPC client (StdioMCPClient).                                 *)
(*                                                                         *)
(* Each component has its own specification (SpecRegistry, SpecEngine,     *)
(* SpecRoute, SpecServer, SpecClient) over the variables of that           *)
(* component; the variables of the other components stay at their initial  *)
(* value.                                                                  *)
(***************************************************************************)
EXTENDS Naturals, Integers, Sequences, FiniteSets, TLC

VARIABLES
  \* ---- Tool Registry (registry.ts) ----
  tools,          \* ToolRegistry.tools: the Map, as the sequence of its entries in insertion order
  lastExec,       \* the last execute(name, input) call and how it ended
  execCount,      \* number of execute calls made so far
  handlerCalls,   \* every handler invocation made so far: <<handler, input>>
  registerLog,    \* per name, the handler given to the last register call for it
  \* ---- Agent Engine (engine.ts, runAgent) ----
  pc,             \* where runAgent is: idle, callLLM, tool, toolRun, done, rejected
  opts,           \* the RunAgentOptions of the call
  toolsParam,     \* const tools: the definitions offered to the oracle
  messages,       \* const messages
  allToolCalls,   \* const allToolCalls
  finalText,      \* let finalText
  iter,           \* the loop variable i
  toolUseBlocks,  \* const toolUseBlocks of the current iteration
  toolResults,    \* const toolResults of the current iteration
  tuIndex,        \* position of the for..of loop over toolUseBlocks
  running,        \* the outcome the handler in flight will settle with
  oracleCalls,    \* number of callLLM calls made by this run
  oracleTools,    \* the `tools` argument of the last callLLM call
  replies,        \* the oracle replies received, in order
  returned,       \* what the promise of runAgent settled with
  \* ---- Orchestrator (orchestrator.ts, quickRoute) ----
  rtMessage,      \* the userMessage quickRoute is called with
  rtResult,       \* what quickRoute returned
  \* ---- RPC server (mcp/server.ts, DevWeaverMCPServer) ----
  srvState,       \* the server process: running or exited
  srvInput,       \* the bytes standard input has still to deliver
  srvRead,        \* the bytes the 'data' handler has been given so far
  srvBuffer,      \* let buffer (start)
  srvHandled,     \* the lines given to handleMessage, in order
  srvCalls,       \* the tools/call requests whose tool.execute is in flight
  srvOut,         \* the lines written to standard output, in order
  \* ---- RPC client (tools/mcp.ts, StdioMCPClient) ----
  cliState,       \* the client: new, connecting (connect awaits initialize), connected, failed
  cliProcess,     \* this.process: null or alive
  cliRequestId,   \* this.requestId
  cliPending,     \* this.pending: the ids it has an entry for
  cliBuffer,      \* this.buffer
  cliSent,        \* the messages written to the child's standard input, in order
  cliTimers,      \* the ids whose setTimeout callback has not run yet
  cliPromises,    \* the promises _sendRequest returned, by request id
  cliPipe,        \* the bytes the child has written that no 'data' event has delivered yet
  cliChildLines,  \* number of lines the child has written
  cliLate,        \* the ids of the responses _onData was given after their request had timed out
  cliAfter,       \* the ids of the requests sent when an earlier request had already timed out
  \* ---- Orchestrator (orchestrator.ts, orchestrate) ----
  orchPc,         \* where orchestrate is: idle, callLLM, subAgent, done, rejected
  orchMessages,   \* const messages
  orchFinal,      \* let finalResult
  orchDelegations,\* const allDelegations
  orchIter,       \* the loop variable i
  orchBlocks,     \* const toolUseBlocks of the current iteration
  orchResults,    \* const toolResults of the current iteration
  orchIndex,      \* position of the for..of loop over toolUseBlocks
  orchCalls,      \* number of callLLM calls made by this call of orchestrate
  orchReplies,    \* the oracle replies received, in order
  orchRuns,       \* the sub-agent functions called, in order: agent and message
  orchReturned,   \* what the promise of orchestrate settled with
  \* ---- MCP manager (tools/mcp.ts, MCPManager) ----
  mgrPc,          \* where connectAll is: idle, connect (awaits client.connect), list (awaits client.listTools), done
  mgrConfigs,     \* the configs connectAll was called with
  mgrIndex,       \* position of the for..of loop over configs
  mgrTotal,       \* let totalTools
  mgrClients,     \* this.clients: the Map, as the sequence of its entries (name, client)
  mgrMade,        \* every client constructed so far: its config and the state of its connection
  mgrReturns,     \* what each connectServer call returned, in order
  mgrCalls,       \* every callTool call made by a registered handler
  mgrExec,        \* the last registry.execute of a discovered tool and how it ended
  mgrResult,      \* what the promise of connectAll settled with
  mgrShutdown,    \* disconnectAll has been called
  \* ---- Context manager (context-manager.ts, executeParallelContexts) ----
  parPc,          \* where executeParallelContexts is: idle, waiting (await Promise.all), resolved, rejected
  parRuns,        \* the promises of executeFreshContext, one per task: running, returned or threw, and the value
  parSettled,     \* the tasks in the order their runs finished
  parReturned     \* what the promise of executeParallelContexts settled with

regVars == <<tools, lastExec, execCount, handlerCalls, registerLog>>

engVars == <<pc, opts, toolsParam, messages, allToolCalls, finalText, iter,
             toolUseBlocks, toolResults, tuIndex, running, oracleCalls,
             oracleTools, replies, returned>>

routeVars == <<rtMessage, rtResult>>

srvVars == <<srvState, srvInput, srvRead, srvBuffer, srvHandled, srvCalls, srvOut>>

cliVars == <<cliState, cliProcess, cliRequestId, cliPending, cliBuffer, cliSent,
             cliTimers, cliPromises, cliPipe, cliChildLines, cliLate, cliAfter>>

orchVars == <<orchPc, orchMessages, orchFinal, orchDelegations, orchIter, orchBlocks,
              orchResults, orchIndex, orchCalls, orchReplies, orchRuns, orchReturned>>

mgrVars == <<mgrPc, mgrConfigs, mgrIndex, mgrTotal, mgrClients, mgrMade, mgrReturns,
             mgrCalls, mgrExec, mgrResult, mgrShutdown>>

parVars == <<parPc, parRuns, parSettled, parReturned>>

vars == <<regVars, engVars, routeVars, srvVars, cliVars, orchVars, mgrVars, parVars>>

\* The variables the registry and the engine leave alone.
outsideEngine == <<routeVars, srvVars, cliVars, orchVars, mgrVars, parVars>>

\* The variables quickRoute leaves alone.
outsideRoute == <<regVars, engVars, srvVars, cliVars, orchVars, mgrVars, parVars>>

\* The variables the RPC server leaves alone.
outsideServer == <<regVars, engVars, routeVars, cliVars, orchVars, mgrVars, parVars>>

\* The variables the RPC client leaves alone.
outsideClient == <<regVars, engVars, routeVars, srvVars, orchVars, mgrVars, parVars>>

\* The variables orchestrate leaves alone.
outsideOrchestrator == <<regVars, engVars, routeVars, srvVars, cliVars, mgrVars, parVars>>

\* The variables executeParallelContexts leaves alone.
outsideParallel == <<regVars, engVars, routeVars, srvVars, cliVars, orchVars, mgrVars>>

\* The variables the MCP manager leaves alone (it registers tools in the
\* registry).
outsideManager == <<lastExec, execCount, handlerCalls, registerLog, engVars, routeVars,
                    srvVars, cliVars, orchVars, parVars>>

None == [kind |-> "none"]

\* ---------------------------------------------------------------------------
\* Values that cross the tool boundary
\* ---------------------------------------------------------------------------

\* The tool names that callers use; "t_none" is never registered.
ToolNames == {"t_str", "t_obj", "t_throw", "t_none"}

\* The names register() is called with.
RegisterableNames == ToolNames \ {"t_none"}

\* The behaviours a handler can have: return a string, return a ToolOutput
\* object, or throw.
Handlers == {"hStr", "hObj", "hThrow"}

ToolInputs == {"in1", "in2"}

Return(v) == [kind |-> "return", val |-> v]

Throw(m) == [kind |-> "throw", msg |-> m]

StrVal(s) == [type |-> "string", v |-> s]

ObjVal(o) == [type |-> "object", v |-> o]

\* What a handler does with an input: the awaited outcome of handler(input).
HandlerRun(h, input) ==
  CASE h = "hStr" -> Return(StrVal(<<"text", input>>))
    [] h = "hObj" -> Return(ObjVal(<<"data", input>>))
    [] OTHER      -> Throw(<<"handler failed", input>>)

\* ---------------------------------------------------------------------------
\* Tool Registry
\* ---------------------------------------------------------------------------

ToolDefinitionOf(name) == [name |-> name, description |-> <<"desc", name>>]

IndexOf(t, name) ==
  IF \E j \in 1..Len(t) : t[j].name = name
  THEN CHOOSE j \in 1..Len(t) : t[j].name = name
  ELSE 0

\* Map.has
RegistryHas(t, name) == IndexOf(t, name) /= 0

\* Map.get (only used where the name is present)
RegistryGet(t, name) == t[IndexOf(t, name)]

\* a map that keeps every entry it is given
MapSetAppends(t, entry) == Append(t, entry)

\* Map.set: a new key is appended, an existing key keeps its place and gets
\* the new value.
MapSet(t, entry) ==
  IF RegistryHas(t, entry.name)
  THEN [t EXCEPT ![IndexOf(t, entry.name)] = entry]
  ELSE Append(t, entry)

\* register(definition, handler)
RegistryRegister(t, definition, handler) ==
  MapSet(t, [name |-> definition.name, definition |-> definition, handler |-> handler])

\* names()
RegistryNames(t) == [j \in 1..Len(t) |-> t[j].name]

\* definitions()
RegistryDefinitions(t) == [j \in 1..Len(t) |-> t[j].definition]

UnknownToolMsg(name) == <<"Unknown tool: ", name>>

\* execute without the `if (!entry)` guard: the handler of an absent entry
\* is read, which is a TypeError.
RegistryExecuteNoGuard(t, name, input) ==
  IF RegistryHas(t, name)
  THEN [outcome |-> HandlerRun(RegistryGet(t, name).handler, input),
        invoked |-> <<(<<RegistryGet(t, name).handler, input>>)>>,
        tools   |-> t]
  ELSE [outcome |-> Throw(<<"TypeError: Cannot read properties of undefined", name>>),
        invoked |-> <<>>,
        tools   |-> t]

\* execute(name, input): the awaited outcome, the handler invocations made,
\* and the registry afterwards.
RegistryExecute(t, name, input) ==
  IF ~RegistryHas(t, name)
  THEN [outcome |-> Throw(UnknownToolMsg(name)), invoked |-> <<>>, tools |-> t]
  ELSE [outcome |-> HandlerRun(RegistryGet(t, name).handler, input),
        invoked |-> <<(<<RegistryGet(t, name).handler, input>>)>>,
        tools   |-> t]

\* No RPC server has been started.
SrvIdle ==
  /\ srvState = "none"
  /\ srvInput = <<>>
  /\ srvRead = <<>>
  /\ srvBuffer = <<>>
  /\ srvHandled = <<>>
  /\ srvCalls = {}
  /\ srvOut = <<>>

\* No RPC client has been made.
CliIdle ==
  /\ cliState = "none"
  /\ cliProcess = "null"
  /\ cliRequestId = 0
  /\ cliPending = {}
  /\ cliBuffer = <<>>
  /\ cliSent = <<>>
  /\ cliTimers = {}
  /\ cliPromises = <<>>
  /\ cliPipe = <<>>
  /\ cliChildLines = 0
  /\ cliLate = {}
  /\ cliAfter = {}

\* Orchestrate has not been started.
OrchIdle ==
  /\ orchPc = "idle"
  /\ orchMessages = <<>>
  /\ orchFinal = <<>>
  /\ orchDelegations = <<>>
  /\ orchIter = 0
  /\ orchBlocks = <<>>
  /\ orchResults = <<>>
  /\ orchIndex = 0
  /\ orchCalls = 0
  /\ orchReplies = <<>>
  /\ orchRuns = <<>>
  /\ orchReturned = None

\* connectAll has not been called.
MgrIdle ==
  /\ mgrPc = "idle"
  /\ mgrConfigs = <<>>
  /\ mgrIndex = 0
  /\ mgrTotal = 0
  /\ mgrClients = <<>>
  /\ mgrMade = <<>>
  /\ mgrReturns = <<>>
  /\ mgrCalls = <<>>
  /\ mgrExec = None
  /\ mgrResult = None
  /\ mgrShutdown = FALSE

\* executeParallelContexts has not been called.
ParIdle ==
  /\ parPc = "idle"
  /\ parRuns = <<>>
  /\ parSettled = <<>>
  /\ parReturned = None

\* quickRoute has not been called.
RouteIdle ==
  /\ rtMessage = <<>>
  /\ rtResult = None

\* The state of the Agent Engine when no runAgent call has been made.
EngIdle ==
  /\ pc = "idle"
  /\ opts = None
  /\ toolsParam = <<>>
  /\ messages = <<>>
  /\ allToolCalls = <<>>
  /\ finalText = <<>>
  /\ iter = 0
  /\ toolUseBlocks = <<>>
  /\ toolResults = <<>>
  /\ tuIndex = 0
  /\ running = None
  /\ oracleCalls = 0
  /\ oracleTools = None
  /\ replies = <<>>
  /\ returned = None

\* ---------------------------------------------------------------------------
\* SpecRegistry: register and execute calls on one registry
\* ---------------------------------------------------------------------------

MaxExec == 2

\* the register calls that built the registry t, each name registered once
RegisterLogOf(t) ==
  [n \in RegisterableNames |->
     IF RegistryHas(t, n) THEN RegistryGet(t, n).handler ELSE "none"]

RegInit ==
  /\ tools = <<>>
  /\ lastExec = None
  /\ execCount = 0
  /\ handlerCalls = <<>>
  /\ registerLog = RegisterLogOf(<<>>)

Register(name, handler) ==
  /\ tools' = RegistryRegister(tools, ToolDefinitionOf(name), handler)
  /\ registerLog' = [registerLog EXCEPT ![name] = handler]
  /\ UNCHANGED <<lastExec, execCount, handlerCalls>>
  /\ UNCHANGED engVars
  /\ UNCHANGED outsideEngine

Execute(name, input) ==
  /\ execCount < MaxExec
  /\ LET r == RegistryExecute(tools, name, input) IN
       /\ lastExec' = [kind |-> "exec", name |-> name, input |-> input,
                       outcome |-> r.outcome]
       /\ handlerCalls' = handlerCalls \o r.invoked
       /\ tools' = r.tools
  /\ execCount' = execCount + 1
  /\ UNCHANGED registerLog
  /\ UNCHANGED engVars
  /\ UNCHANGED outsideEngine

NextRegistry ==
  \/ \E n \in RegisterableNames, h \in Handlers : Register(n, h)
  \/ \E n \in ToolNames, x \in ToolInputs : Execute(n, x)

InitRegistry == RegInit /\ EngIdle /\ RouteIdle /\ SrvIdle /\ CliIdle /\ OrchIdle /\ MgrIdle /\ ParIdle

SpecRegistry == InitRegistry /\ [][NextRegistry]_vars

\* C1: an execute(n, input) for a name n that is not registered at the time
\* of the call fails with the error 'Unknown tool: n' and with no other
\* error, invokes no handler and leaves the registry as it was.
C1_UnknownToolFails ==
  [][ (execCount' = execCount + 1 /\ ~RegistryHas(tools, lastExec'.name))
        => /\ lastExec'.outcome = Throw(UnknownToolMsg(lastExec'.name))
           /\ handlerCalls' = handlerCalls
           /\ tools' = tools ]_vars

\* An unregistered name was executed while other tools were registered.
C1_Witness ==
  /\ lastExec /= None
  /\ lastExec.name = "t_none"
  /\ lastExec.outcome.kind = "throw"
  /\ Len(tools) >= 2

\* how many times name n occurs in a list of names
Occurrences(list, n) == Cardinality({ j \in 1..Len(list) : list[j] = n })

DefinitionNames(t) == [j \in 1..Len(t) |-> RegistryDefinitions(t)[j].name]

\* C16: whatever register calls were made, repeated ones included, every
\* name registered at least once occurs exactly once in names() and exactly
\* once in definitions() (and no other name occurs); a register call for a
\* name already registered is accepted like any other; and execute(n, x)
\* invokes, once, the handler given to the most recent register call for n
\* and no other handler.
C16_LastRegistrationWins ==
  /\ [](\A n \in RegisterableNames :
          /\ Occurrences(RegistryNames(tools), n) = (IF registerLog[n] = "none" THEN 0 ELSE 1)
          /\ Occurrences(DefinitionNames(tools), n) = (IF registerLog[n] = "none" THEN 0 ELSE 1)
          /\ \A h \in Handlers : ENABLED Register(n, h))
  /\ [](Len(RegistryNames(tools)) = Cardinality({ n \in RegisterableNames : registerLog[n] /= "none" }))
  /\ [][ (execCount' = execCount + 1 /\ lastExec'.name \in RegisterableNames
           /\ registerLog[lastExec'.name] /= "none")
         => /\ handlerCalls' = Append(handlerCalls, <<registerLog[lastExec'.name], lastExec'.input>>)
            /\ lastExec'.outcome = HandlerRun(registerLog[lastExec'.name], lastExec'.input) ]_vars

\* The only name ever registered was executed twice and answered by two
\* different handlers: it was registered again in between.
C16_Witness ==
  /\ Len(tools) = 1
  /\ Len(handlerCalls) = 2
  /\ handlerCalls[1][1] = "hThrow"
  /\ handlerCalls[2][1] = "hObj"
  /\ registerLog[tools[1].name] = "hObj"

\* ---------------------------------------------------------------------------
\* Oracle replies (LLMResponse.content) and conversation messages
\* ---------------------------------------------------------------------------

\* An optional field of a ContentBlock that is not there.
Undefined == "undefined"

TextBlock(t) ==
  [type |-> "text", text |-> t, id |-> Undefined, name |-> Undefined, input |-> Undefined]

ToolUse(id, name, input) ==
  [type |-> "tool_use", text |-> Undefined, id |-> id, name |-> name, input |-> input]

\* A block of type tool_use that has no `input` property.
BadToolUse(id, name) ==
  [type |-> "tool_use", text |-> Undefined, id |-> id, name |-> name, input |-> Undefined]

\* Message.content and LLMResponse.content: a string, a sequence of blocks,
\* or nothing.
StringContent(t) == [type |-> "string", v |-> t]

Blocks(bs) == [type |-> "blocks", v |-> bs]

NoContent == [type |-> "undefined", v |-> <<>>]

\* The replies the oracle can give: the `content` of the LLMResponse.
OracleReplies ==
  { Blocks(<<TextBlock("answer")>>),
    NoContent,
    Blocks(<<TextBlock("plan"), ToolUse("u1", "t_str", "in1")>>),
    Blocks(<<ToolUse("u1", "t_throw", "in1"), ToolUse("u2", "t_obj", "in2")>>),
    Blocks(<<ToolUse("u1", "t_str", "in2"), ToolUse("u2", "t_none", "in1")>>),
    Blocks(<<ToolUse("u1", "t_obj", "in1"), BadToolUse("u2", "t_str")>>),
    Blocks(<<BadToolUse("u1", "t_str")>>) }

Msg(role, content) == [role |-> role, content |-> content]

UserText(t) == Msg("user", StringContent(t))

PriorChoices ==
  { <<>>,
    <<UserText("earlier question"), Msg("assistant", Blocks(<<TextBlock("earlier answer")>>))>> }

\* An optional list: toolNames of the options, the tools of an oracle call.
Absent == [given |-> FALSE, list |-> <<>>]

Given(l) == [given |-> TRUE, list |-> l]

\* The last two are a list with one wildcard entry, as spawnVerifier passes
\* ('code_*' where code_read_file is registered; here 't_*' where t_str, t_obj
\* and t_throw are), and the empty list.
ToolNameChoices ==
  { Absent, Given(<<"t_obj", "t_none", "t_str">>), Given(<<"t_str", "t_none", "t_str">>),
    Given(<<"t_*">>), Given(<<>>) }

\* ---------------------------------------------------------------------------
\* provider.ts: extractText, extractToolUse
\* ---------------------------------------------------------------------------

IsTextBlock(b) == b.type = "text" /\ b.text /= Undefined

IsToolUseBlock(b) == b.type = "tool_use" /\ b.name /= Undefined /\ b.input /= Undefined

\* extractText: the texts of the text blocks (joined with newlines), '' when
\* there is none.
ExtractText(content) ==
  IF content.type /= "blocks" THEN <<>>
  ELSE LET tb == SelectSeq(content.v, IsTextBlock) IN [j \in 1..Len(tb) |-> tb[j].text]

\* extractToolUse
ExtractToolUse(content) ==
  IF content.type /= "blocks" THEN <<>>
  ELSE SelectSeq(content.v, IsToolUseBlock)

\* ---------------------------------------------------------------------------
\* engine.ts: runAgent
\* ---------------------------------------------------------------------------

\* the definitions of the registry whose name is listed, in registry order
RegistryDefinitionsInMapOrder(t, names) ==
  SelectSeq(RegistryDefinitions(t),
            LAMBDA d : \E j \in 1..Len(names) : names[j] = d.name)

\* definitionsFor(names)
RegistryDefinitionsFor(t, names) ==
  LET known == SelectSeq(names, LAMBDA n : RegistryHas(t, n)) IN
    [j \in 1..Len(known) |-> RegistryGet(t, known[j]).definition]

\* a tool list that is the whole catalog when the filter selects nothing
BuildToolListOrAll(t, toolNames) ==
  IF toolNames.given /\ Len(RegistryDefinitionsFor(t, toolNames.list)) > 0
  THEN RegistryDefinitionsFor(t, toolNames.list)
  ELSE RegistryDefinitions(t)

\* toolNames ? registry.definitionsFor(toolNames) : registry.definitions()
BuildToolList(t, toolNames) ==
  IF toolNames.given
  THEN RegistryDefinitionsFor(t, toolNames.list)
  ELSE RegistryDefinitions(t)

\* tools.length > 0 ? tools : undefined
ToolsArgument(defs) == IF Len(defs) > 0 THEN Given(defs) ELSE Absent

\* the loop test with <= for <
LoopTestInclusive(i, maxIterations) == i <= maxIterations

\* the loop test: i < maxIterations
LoopTest(i, maxIterations) == i < maxIterations

\* a loop that never takes the break
NeverDone(blocks) == FALSE

\* if (toolUseBlocks.length === 0) break
AgentIsDone(blocks) == Len(blocks) = 0

\* a try without its catch: the failure of the tool call goes on up
NoCatch(outcome) ==
  IF outcome.kind = "throw"
  THEN [threw |-> TRUE, result |-> Undefined]
  ELSE [threw |-> FALSE, result |-> outcome.val]

\* try { result = await registry.execute(..) } catch (err) { result = {error: message} }
TryExecute(outcome) ==
  IF outcome.kind = "throw"
  THEN [threw |-> FALSE, result |-> ObjVal(<<"error", outcome.msg>>)]
  ELSE [threw |-> FALSE, result |-> outcome.val]

\* typeof result === 'string' ? result : JSON.stringify(result)
Stringify(result) ==
  IF result.type = "string" THEN result.v ELSE <<"json", result.v>>

\* the tool_result block pushed for one tool_use block
ToolResultBlock(tu, result) ==
  [type |-> "tool_result", tool_use_id |-> tu.id, content |-> Stringify(result)]

\* every result pushed as a user message of its own
PushEachResult(msgs, results) ==
  msgs \o [j \in 1..Len(results) |-> Msg("user", Blocks(<<results[j]>>))]

\* messages.push({ role: 'user', content: toolResults })
PushToolResults(msgs, results) == Append(msgs, Msg("user", Blocks(results)))

\* The state runAgent is in when it reaches the loop test with i = n: the next
\* oracle call is made, or the function returns.
AtLoopTest(n, maxIterations, defs, msgs, calls, text) ==
  IF LoopTest(n, maxIterations)
  THEN /\ pc' = "callLLM"
       /\ oracleCalls' = oracleCalls + 1
       /\ oracleTools' = ToolsArgument(defs)
       /\ returned' = None
  ELSE /\ pc' = "done"
       /\ oracleCalls' = oracleCalls
       /\ oracleTools' = oracleTools
       /\ returned' = [kind |-> "result", result |-> text, messages |-> msgs,
                       toolCalls |-> calls]

MaxIter == 3

\* runAgent(opts): lines 36-62, up to the first oracle call
RunAgentStart(maxIterations, toolNames, priorMessages) ==
  /\ pc = "idle"
  /\ opts' = [maxIterations |-> maxIterations, toolNames |-> toolNames,
              priorMessages |-> priorMessages, userMessage |-> "task"]
  /\ toolsParam' = BuildToolList(tools, toolNames)
  /\ messages' = priorMessages \o <<UserText("task")>>
  /\ allToolCalls' = <<>>
  /\ finalText' = <<>>
  /\ iter' = 0
  /\ AtLoopTest(0, maxIterations, BuildToolList(tools, toolNames),
                priorMessages \o <<UserText("task")>>, <<>>, <<>>)
  /\ UNCHANGED <<toolUseBlocks, toolResults, tuIndex, running, replies>>
  /\ UNCHANGED regVars
  /\ UNCHANGED outsideEngine

\* a loop that catches the error of callLLM and returns what it has so far
CallLLMThrowsSoft(error) ==
  [pc |-> "done",
   returned |-> [kind |-> "result", result |-> finalText, messages |-> messages,
                 toolCalls |-> allToolCalls]]

\* `await callLLM(...)` throws: no try encloses it, so the promise of runAgent
\* is rejected with that error
CallLLMThrows(error) ==
  [pc |-> "rejected", returned |-> [kind |-> "error", msg |-> error]]

\* the oracle call fails: callLLM throws
OracleFail ==
  /\ pc = "callLLM"
  /\ pc' = CallLLMThrows(<<"LLM API error">>).pc
  /\ returned' = CallLLMThrows(<<"LLM API error">>).returned
  /\ UNCHANGED <<opts, toolsParam, messages, allToolCalls, finalText, iter,
                 toolUseBlocks, toolResults, tuIndex, running, oracleCalls,
                 oracleTools, replies>>
  /\ UNCHANGED regVars
  /\ UNCHANGED outsideEngine

\* the oracle call returns: lines 70-86
OracleReply(content) ==
  /\ pc = "callLLM"
  /\ replies' = Append(replies, content)
  /\ LET text == ExtractText(content)
         blocks == ExtractToolUse(content)
         msgs == Append(messages, Msg("assistant", content))
         newText == IF text /= <<>> THEN text ELSE finalText
     IN
       /\ finalText' = newText
       /\ toolUseBlocks' = blocks
       /\ toolResults' = <<>>
       /\ IF AgentIsDone(blocks)
          THEN /\ pc' = "done"
               /\ messages' = msgs
               /\ returned' = [kind |-> "result", result |-> newText,
                               messages |-> msgs, toolCalls |-> allToolCalls]
               /\ UNCHANGED <<iter, tuIndex, oracleCalls, oracleTools, opts, toolsParam>>
          ELSE IF blocks = <<>>
          THEN /\ messages' = PushToolResults(msgs, <<>>)
               /\ iter' = iter + 1
               /\ UNCHANGED <<tuIndex, opts, toolsParam>>
               /\ AtLoopTest(iter + 1, opts.maxIterations, toolsParam,
                             PushToolResults(msgs, <<>>), allToolCalls, newText)
          ELSE /\ pc' = "tool"
               /\ messages' = msgs
               /\ tuIndex' = 1
               /\ UNCHANGED <<iter, oracleCalls, oracleTools, opts, toolsParam, returned>>
  /\ UNCHANGED <<allToolCalls, running>>
  /\ UNCHANGED regVars
  /\ UNCHANGED outsideEngine

\* one pass of the for..of loop up to the await: lines 88-93
ToolStart ==
  /\ pc = "tool"
  /\ LET tu == toolUseBlocks[tuIndex]
         r == RegistryExecute(tools, tu.name, tu.input)
     IN
       /\ allToolCalls' = Append(allToolCalls, [name |-> tu.name, input |-> tu.input])
       /\ handlerCalls' = handlerCalls \o r.invoked
       /\ tools' = r.tools
       /\ running' = r.outcome
  /\ pc' = "toolRun"
  /\ UNCHANGED <<lastExec, execCount, registerLog>>
  /\ UNCHANGED <<opts, toolsParam, messages, finalText, iter, toolUseBlocks,
                 toolResults, tuIndex, oracleCalls, oracleTools, replies, returned>>
  /\ UNCHANGED outsideEngine

\* the awaited execute settles: lines 93-108
ToolFinish ==
  /\ pc = "toolRun"
  /\ LET tu == toolUseBlocks[tuIndex]
         got == TryExecute(running)
     IN
       IF got.threw
       THEN /\ pc' = "rejected"
            /\ returned' = [kind |-> "error", msg |-> running.msg]
            /\ UNCHANGED <<toolResults, tuIndex, messages, iter, oracleCalls, oracleTools>>
       ELSE LET results == Append(toolResults, ToolResultBlock(tu, got.result)) IN
              /\ toolResults' = results
              /\ IF tuIndex < Len(toolUseBlocks)
                 THEN /\ pc' = "tool"
                      /\ tuIndex' = tuIndex + 1
                      /\ UNCHANGED <<messages, iter, oracleCalls, oracleTools, returned>>
                 ELSE /\ messages' = PushToolResults(messages, results)
                      /\ iter' = iter + 1
                      /\ UNCHANGED tuIndex
                      /\ AtLoopTest(iter + 1, opts.maxIterations, toolsParam,
                                    PushToolResults(messages, results),
                                    allToolCalls, finalText)
  /\ running' = None
  /\ UNCHANGED <<opts, toolsParam, allToolCalls, finalText, toolUseBlocks, replies>>
  /\ UNCHANGED regVars
  /\ UNCHANGED outsideEngine

\* The registry a run works with: the three tools registered at startup.
EngineRegistry ==
  RegistryRegister(
    RegistryRegister(
      RegistryRegister(<<>>, ToolDefinitionOf("t_str"), "hStr"),
      ToolDefinitionOf("t_obj"), "hObj"),
    ToolDefinitionOf("t_throw"), "hThrow")

InitEngine ==
  /\ tools = EngineRegistry
  /\ lastExec = None
  /\ execCount = 0
  /\ handlerCalls = <<>>
  /\ registerLog = RegisterLogOf(EngineRegistry)
  /\ EngIdle
  /\ RouteIdle
  /\ SrvIdle
  /\ CliIdle
  /\ OrchIdle
  /\ MgrIdle
  /\ ParIdle

NextEngine ==
  \/ \E m \in 0..MaxIter, tn \in ToolNameChoices, pm \in PriorChoices : RunAgentStart(m, tn, pm)
  \/ \E c \in OracleReplies : OracleReply(c)
  \/ OracleFail
  \/ ToolStart
  \/ ToolFinish

SpecEngine == InitEngine /\ [][NextEngine]_vars

\* ---------------------------------------------------------------------------
\* Agent Engine: what the claims speak of
\* ---------------------------------------------------------------------------

\* The tool-invocation requests of a reply or of a message, in order: the
\* blocks of type tool_use that have a name and an input.
Requests(content) ==
  IF content.type = "blocks"
  THEN SelectSeq(content.v,
                 LAMBDA b : b.type = "tool_use" /\ b.name /= Undefined /\ b.input /= Undefined)
  ELSE <<>>

\* The promise of runAgent was rejected because an oracle call failed.
OracleFailed == pc = "rejected" /\ returned.msg = <<"LLM API error">>

\* What the tool-result of a request must carry, given the tools registered
\* in EngineRegistry.
ExpectedContent(req) ==
  CASE req.name = "t_str"   -> <<"text", req.input>>
    [] req.name = "t_obj"   -> <<"json", <<"data", req.input>>>>
    [] req.name = "t_throw" -> <<"json", <<"error", <<"handler failed", req.input>>>>>>
    [] OTHER                -> <<"json", <<"error", <<"Unknown tool: ", req.name>>>>>>

RequestFails(req) == req.name \in {"t_throw", "t_none"}

\* C2: when the first reply of the oracle holds no tool-invocation request,
\* runAgent has made exactly one oracle call, has run no tool, and has
\* returned with no tool calls and the conversation: prior messages, the user
\* message, that one assistant message.
C2_NoRequestEndsAfterOneCall ==
  (Len(replies) >= 1 /\ Len(Requests(replies[1])) = 0)
    => /\ pc = "done"
       /\ oracleCalls = 1
       /\ handlerCalls = <<>>
       /\ returned.kind = "result"
       /\ returned.toolCalls = <<>>
       /\ returned.messages =
            opts.priorMessages \o <<UserText(opts.userMessage), Msg("assistant", replies[1])>>

\* A run with prior messages whose first reply is a final answer.
C2_Witness ==
  /\ pc = "done"
  /\ Len(replies) = 1
  /\ Len(Requests(replies[1])) = 0
  /\ opts.priorMessages /= <<>>
  /\ opts.maxIterations > 1

\* C3: when every reply of the oracle requests at least one tool invocation,
\* a run that has ended has made exactly maxIterations oracle calls and has
\* returned a result (result, messages, toolCalls), not an error; the only
\* way a run ends in an error is a failed oracle call.
C3_BudgetExhaustionReturns ==
  /\ (pc /= "idle" /\ \A j \in 1..Len(replies) : Len(Requests(replies[j])) >= 1)
       => /\ oracleCalls <= opts.maxIterations
          /\ (pc = "done" =>
                /\ oracleCalls = opts.maxIterations
                /\ Len(replies) = opts.maxIterations
                /\ returned.kind = "result"
                /\ returned.messages = messages
                /\ returned.toolCalls = allToolCalls
                /\ returned.result = finalText)
  /\ (pc = "rejected" => OracleFailed)

\* The budget ran out after MaxIter oracle calls that all requested tools.
C3_Witness ==
  /\ pc = "done"
  /\ opts.maxIterations = MaxIter
  /\ Len(replies) = MaxIter
  /\ \A j \in 1..Len(replies) : Len(Requests(replies[j])) >= 1

\* C4: when one turn requests several tool invocations and one of them fails
\* (its handler throws, or its name is not registered), the failing request
\* gets a tool-result with an {error: message} payload, every other request
\* of the turn gets the result of its own handler, the run goes on to the
\* loop test (the next oracle call, while the budget lasts), and runAgent is
\* not rejected by the failure.
C4_ToolFailureIsolated ==
  /\ \A m \in 1..Len(messages) :
       LET req == Requests(messages[m].content) IN
         (/\ messages[m].role = "assistant"
          /\ Len(req) >= 2
          /\ \E j \in 1..Len(req) : RequestFails(req[j])
          /\ m < Len(messages))
           => /\ messages[m + 1].role = "user"
              /\ messages[m + 1].content.type = "blocks"
              /\ Len(messages[m + 1].content.v) = Len(req)
              /\ \A j \in 1..Len(req) :
                   messages[m + 1].content.v[j].content = ExpectedContent(req[j])
              /\ (m + 1 = Len(messages) =>
                    \/ pc = "callLLM"
                    \/ OracleFailed
                    \/ pc = "done" /\ Len(replies) = opts.maxIterations)
  /\ (pc = "rejected" => OracleFailed)

\* A turn whose first tool call failed was answered in full and the oracle
\* was called again.
C4_Witness ==
  \E m \in 1..Len(messages) :
    /\ messages[m].role = "assistant"
    /\ Len(Requests(messages[m].content)) = 2
    /\ RequestFails(Requests(messages[m].content)[1])
    /\ ~RequestFails(Requests(messages[m].content)[2])
    /\ Len(messages) >= m + 2

\* C5: every assistant message with k >= 1 tool-invocation requests is
\* followed at once by one user message of exactly k tool-result blocks, the
\* j-th carrying the correlation id of the j-th request; until that message
\* is appended the run is collecting the results and no oracle call is made.
C5_RequestResultPairing ==
  /\ \A m \in 1..Len(messages) :
       LET req == Requests(messages[m].content) IN
         (messages[m].role = "assistant" /\ Len(req) >= 1)
           => IF m = Len(messages)
              THEN pc \in {"tool", "toolRun"}
              ELSE /\ messages[m + 1].role = "user"
                   /\ messages[m + 1].content.type = "blocks"
                   /\ Len(messages[m + 1].content.v) = Len(req)
                   /\ \A j \in 1..Len(req) :
                        /\ messages[m + 1].content.v[j].type = "tool_result"
                        /\ messages[m + 1].content.v[j].tool_use_id = req[j].id
  /\ (pc \in {"tool", "toolRun"} => oracleCalls = Len(replies))

\* A finished run in which a turn of two requests was answered.
C5_Witness ==
  /\ pc = "done"
  /\ \E m \in 1..Len(messages) :
       /\ messages[m].role = "assistant"
       /\ Len(Requests(messages[m].content)) = 2
       /\ m + 2 <= Len(messages)

\* an oracle call of this run was made, is over, and delivered no reply
OracleCallFailed == pc \notin {"idle", "callLLM"} /\ oracleCalls > Len(replies)

\* C11: when an oracle call fails, at whatever iteration and after however
\* many tool calls, runAgent is rejected with the error of that call and
\* returns no result object; and it is rejected by nothing else.
C11_OracleFailureRejects ==
  /\ OracleCallFailed =>
       /\ pc = "rejected"
       /\ returned.kind = "error"
       /\ returned.msg = <<"LLM API error">>
  /\ pc = "rejected" => OracleCallFailed
  /\ pc = "done" => returned.kind = "result" /\ oracleCalls = Len(replies)

\* The oracle fails after a turn whose tool calls were made and answered.
C11_Witness ==
  /\ OracleCallFailed
  /\ pc = "rejected"
  /\ Len(replies) >= 1
  /\ Len(allToolCalls) >= 2
  /\ iter >= 1

\* the positions of the filter list that hold a registered name
KnownPositions(t, list) == { j \in 1..Len(list) : RegistryHas(t, list[j]) }

\* defs is the list of the definitions of the registered names of list, one
\* per position that holds a registered name, in the order of the positions
IsFilteredList(t, list, defs) ==
  \E f \in [1..Len(defs) -> 1..Len(list)] :
    /\ \A a, b \in 1..Len(defs) : a < b => f[a] < f[b]
    /\ { f[a] : a \in 1..Len(defs) } = KnownPositions(t, list)
    /\ \A a \in 1..Len(defs) : defs[a] = RegistryGet(t, list[f[a]]).definition

\* C17: a run started with a filter list is offered exactly the definitions of
\* the listed names that are registered, in the order of the list (a name listed
\* twice gives its definition twice), the unregistered names being dropped
\* without an error (the run starts, it is not rejected by the call); and
\* starting the run does not change the registry.
C17_FilteredDefinitions ==
  /\ []((pc /= "idle" /\ opts.toolNames.given) =>
          IsFilteredList(tools, opts.toolNames.list, toolsParam))
  /\ [][ (pc = "idle" /\ pc' /= "idle") =>
           /\ tools' = tools
           /\ (opts'.toolNames.given /\ opts'.maxIterations > 0) => pc' = "callLLM" ]_vars

\* a run with the filter list t_obj, t_none, t_str was offered t_obj then
\* t_str, the reverse of their order in the registry
C17_Witness ==
  /\ pc /= "idle"
  /\ opts.toolNames = Given(<<"t_obj", "t_none", "t_str">>)
  /\ toolsParam = <<ToolDefinitionOf("t_obj"), ToolDefinitionOf("t_str")>>
  /\ RegistryNames(tools) = <<"t_str", "t_obj", "t_throw">>

\* the requests of the current turn whose registry.execute call has been made
DispatchedInTurn ==
  IF pc = "toolRun" THEN tuIndex ELSE IF pc = "tool" THEN tuIndex - 1 ELSE 0

\* C22: the requests of one oracle reply are dispatched as a concurrent
\* batch: while the handler of a request of the turn is in flight, the
\* registry.execute call of every request of the turn has been made (the
\* handlers of the later requests started without waiting for it).
C22_ConcurrentBatch ==
  pc = "toolRun" => DispatchedInTurn = Len(toolUseBlocks)

\* C28: in a run started with the filter list S, every handler that is
\* invoked is the handler of a registered tool named in S, whatever the oracle
\* requests: a request for a registered tool that S does not name runs no handler.
C28_SubsetConfinement ==
  (pc /= "idle" /\ opts.toolNames.given) =>
    \A j \in 1..Len(handlerCalls) :
      \E k \in KnownPositions(tools, opts.toolNames.list) :
        RegistryGet(tools, opts.toolNames.list[k]).handler = handlerCalls[j][1]

\* the filter list of the run is given and none of its entries is the name of
\* a registered tool
NothingSelected ==
  /\ opts.toolNames.given
  /\ \A j \in 1..Len(opts.toolNames.list) :
       \A k \in 1..Len(tools) : tools[k].name /= opts.toolNames.list[j]

\* C29: the entries of the filter list are compared with the registered names
\* as they are: a wildcard entry selects no tool; and a run whose list holds no
\* registered name (the empty list too) makes every oracle call with no tool
\* definitions at all, never with the whole catalog.
C29_ExactNamesOnly ==
  /\ []((pc /= "idle" /\ opts.toolNames = Given(<<"t_*">>)) =>
          /\ Len(tools) > 0
          /\ toolsParam = <<>>)
  /\ []((pc /= "idle" /\ NothingSelected) =>
          /\ toolsParam = <<>>
          /\ oracleCalls > 0 => oracleTools = Absent)
  /\ [][ (oracleCalls' > oracleCalls /\ pc' /= "idle" /\ NothingSelected') =>
           /\ oracleTools' = Absent
           /\ oracleTools' /= Given(RegistryDefinitions(tools')) ]_vars

\* A run with the one entry 't_*' made two oracle calls, both without tool
\* definitions, while three tools whose names begin with t_ are registered.
C29_Witness ==
  /\ pc = "done"
  /\ opts.toolNames = Given(<<"t_*">>)
  /\ RegistryNames(tools) = <<"t_str", "t_obj", "t_throw">>
  /\ oracleCalls = 2
  /\ Len(replies) = 2
  /\ oracleTools = Absent
  /\ toolsParam = <<>>

\* ---------------------------------------------------------------------------
\* orchestrator.ts: quickRoute
\* ---------------------------------------------------------------------------

\* SUB_AGENTS: the keys in the order of Object.entries, each with its triggers
\* (a string is the sequence of its characters).
SUB_AGENTS ==
  <<
    [key |-> "feature_analysis",
     triggers |-> <<
       <<"a", "n", "a", "l", "y", "z", "e", " ", "f", "e", "a", "t", "u", "r", "e">>,
       <<"r", "e", "q", "u", "i", "r", "e", "m", "e", "n", "t">>,
       <<"i", "m", "p", "l", "e", "m", "e", "n", "t", "a", "t", "i", "o", "n", " ", "p", "l", "a", "n">>,
       <<"d", "e", "c", "o", "m", "p", "o", "s", "e">>,
       <<"w", "i", "r", "e", "f", "r", "a", "m", "e", " ", "t", "o", " ", "r", "e", "q", "u", "i", "r", "e", "m", "e", "n", "t", "s">>,
       <<"d", "i", "a", "g", "r", "a", "m", " ", "t", "o", " ", "r", "e", "q", "u", "i", "r", "e", "m", "e", "n", "t", "s">>,
       <<"p", "r", "d">> >>],
    [key |-> "jira_management",
     triggers |-> <<
       <<"j", "i", "r", "a">>,
       <<"t", "i", "c", "k", "e", "t">>,
       <<"s", "t", "o", "r", "y">>,
       <<"e", "p", "i", "c">>,
       <<"s", "p", "r", "i", "n", "t">>,
       <<"b", "a", "c", "k", "l", "o", "g">>,
       <<"s", "u", "b", "-", "t", "a", "s", "k">>,
       <<"s", "t", "a", "t", "u", "s">> >>],
    [key |-> "code_analysis",
     triggers |-> <<
       <<"a", "n", "a", "l", "y", "z", "e", " ", "c", "o", "d", "e">>,
       <<"c", "o", "d", "e", " ", "a", "n", "a", "l", "y", "s", "i", "s">>,
       <<"r", "e", "p", "o", " ", "a", "n", "a", "l", "y", "s", "i", "s">>,
       <<"u", "n", "d", "e", "r", "s", "t", "a", "n", "d", " ", "c", "o", "d", "e", "b", "a", "s", "e">>,
       <<"c", "o", "d", "e", " ", "s", "t", "a", "n", "d", "a", "r", "d", "s">>,
       <<"a", "n", "a", "l", "y", "z", "e", " ", "t", "h", "e", " ", "c", "o", "d", "e", "b", "a", "s", "e">>,
       <<"c", "o", "d", "e", "b", "a", "s", "e">> >>],
    [key |-> "code_writer",
     triggers |-> <<
       <<"w", "r", "i", "t", "e", " ", "c", "o", "d", "e">>,
       <<"i", "m", "p", "l", "e", "m", "e", "n", "t">>,
       <<"c", "r", "e", "a", "t", "e", " ", "f", "i", "l", "e">>,
       <<"a", "d", "d", " ", "f", "e", "a", "t", "u", "r", "e">>,
       <<"b", "u", "i", "l", "d">>,
       <<"c", "o", "d", "e">> >>],
    [key |-> "code_test",
     triggers |-> <<
       <<"t", "e", "s", "t">>,
       <<"u", "n", "i", "t", " ", "t", "e", "s", "t">>,
       <<"i", "n", "t", "e", "g", "r", "a", "t", "i", "o", "n", " ", "t", "e", "s", "t">>,
       <<"w", "r", "i", "t", "e", " ", "t", "e", "s", "t">>,
       <<"a", "d", "d", " ", "t", "e", "s", "t">> >>],
    [key |-> "code_review",
     triggers |-> <<
       <<"r", "e", "v", "i", "e", "w">>,
       <<"c", "o", "d", "e", " ", "r", "e", "v", "i", "e", "w">>,
       <<"p", "r", " ", "r", "e", "v", "i", "e", "w">>,
       <<"p", "u", "l", "l", " ", "r", "e", "q", "u", "e", "s", "t">>,
       <<"c", "h", "e", "c", "k", " ", "c", "o", "d", "e">> >>],
    [key |-> "document_management",
     triggers |-> <<
       <<"c", "o", "n", "f", "l", "u", "e", "n", "c", "e">>,
       <<"d", "o", "c", "u", "m", "e", "n", "t", "a", "t", "i", "o", "n">>,
       <<"w", "i", "k", "i">>,
       <<"p", "a", "g", "e">>,
       <<"d", "o", "c", "u", "m", "e", "n", "t">>,
       <<"d", "o", "c", "s">> >>],
    [key |-> "diagram_generation",
     triggers |-> <<
       <<"d", "i", "a", "g", "r", "a", "m">>,
       <<"f", "l", "o", "w", "c", "h", "a", "r", "t">>,
       <<"w", "i", "r", "e", "f", "r", "a", "m", "e">>,
       <<"s", "e", "q", "u", "e", "n", "c", "e", " ", "d", "i", "a", "g", "r", "a", "m">>,
       <<"e", "r", " ", "d", "i", "a", "g", "r", "a", "m">>,
       <<"m", "e", "r", "m", "a", "i", "d">> >>]
  >>

UpperCase == <<"A","B","C","D","E","F","G","H","I","J","K","L","M",
               "N","O","P","Q","R","S","T","U","V","W","X","Y","Z">>

LowerCase == <<"a","b","c","d","e","f","g","h","i","j","k","l","m",
               "n","o","p","q","r","s","t","u","v","w","x","y","z">>

\* String.prototype.toLowerCase
ToLowerCase(str) ==
  [j \in 1..Len(str) |->
     IF \E u \in 1..Len(UpperCase) : UpperCase[u] = str[j]
     THEN LowerCase[CHOOSE u \in 1..Len(UpperCase) : UpperCase[u] = str[j]]
     ELSE str[j]]

\* String.prototype.includes
Includes(str, sub) ==
  \E b \in 0..(Len(str) - Len(sub)) : SubSeq(str, b + 1, b + Len(sub)) = sub

RECURSIVE SplitFrom(_, _, _, _)
\* the pieces of str.split(sep), after the pieces already cut and the piece in hand
SplitFrom(str, sep, pieces, piece) ==
  IF str = <<>> THEN Append(pieces, piece)
  ELSE IF Head(str) = sep
       THEN SplitFrom(Tail(str), sep, Append(pieces, piece), <<>>)
       ELSE SplitFrom(Tail(str), sep, pieces, Append(piece, Head(str)))

\* String.prototype.split with a separator of one character
Split(str, sep) == SplitFrom(str, sep, <<>>, <<>>)

RECURSIVE TriggerLoop(_, _, _, _)
\* for (const trigger of agent.triggers): the score after the triggers from j on
TriggerLoop(lower, triggers, j, score) ==
  IF j > Len(triggers) THEN score
  ELSE TriggerLoop(lower, triggers, j + 1,
                   IF Includes(lower, triggers[j])
                   THEN score + Len(Split(triggers[j], " "))
                   ELSE score)

\* a score that is as good as the best so far takes its place
ScoreAtLeast(score, bestScore) == score >= bestScore

\* if (score > bestScore)
ScoreBeats(score, bestScore) == score > bestScore

RECURSIVE AgentLoop(_, _, _, _)
\* for (const [key, agent] of Object.entries(SUB_AGENTS)): bestMatch and
\* bestScore after the entries from k on
AgentLoop(lower, k, bestMatch, bestScore) ==
  IF k > Len(SUB_AGENTS) THEN [bestMatch |-> bestMatch, bestScore |-> bestScore]
  ELSE LET score == TriggerLoop(lower, SUB_AGENTS[k].triggers, 1, 0) IN
         IF ScoreBeats(score, bestScore)
         THEN AgentLoop(lower, k + 1, SUB_AGENTS[k].key, score)
         ELSE AgentLoop(lower, k + 1, bestMatch, bestScore)

\* quickRoute(userMessage)
QuickRoute(userMessage) ==
  LET end == AgentLoop(ToLowerCase(userMessage), 1, "null", 0) IN
    IF end.bestScore > 0 THEN end.bestMatch ELSE "null"

\* The words user messages are made of.
RouteWords ==
  { <<"j", "i", "r", "a">>,
    <<"t", "i", "c", "k", "e", "t">>,
    <<"u", "n", "i", "t">>,
    <<"t", "e", "s", "t">>,
    <<"c", "o", "d", "e">>,
    <<"r", "e", "v", "i", "e", "w">>,
    <<"w", "r", "i", "t", "e">>,
    <<"c", "o", "d", "e", "b", "a", "s", "e">>,
    <<"R", "e", "v", "i", "e", "w">>,
    <<"T", "E", "S", "T">>,
    <<"g", "i", "b", "b", "e", "r", "i", "s", "h">>,
    <<"d", "i", "a", "g", "r", "a", "m">> }

MaxWords == 2

RECURSIVE MessagesOf(_)
\* The messages of n words, separated by one space.
MessagesOf(n) ==
  IF n = 0 THEN { <<>> }
  ELSE IF n = 1 THEN RouteWords
  ELSE { m \o <<" ">> \o w : m \in MessagesOf(n - 1), w \in RouteWords }

RouteMessages == UNION { MessagesOf(n) : n \in 0..MaxWords }

\* quickRoute(userMessage) is called and returns
QuickRouteCall ==
  /\ rtResult = None
  /\ rtResult' = [kind |-> "routed", key |-> QuickRoute(rtMessage)]
  /\ UNCHANGED rtMessage
  /\ UNCHANGED outsideRoute

InitRoute ==
  /\ RegInit
  /\ EngIdle
  /\ rtMessage \in RouteMessages
  /\ rtResult = None
  /\ SrvIdle
  /\ CliIdle
  /\ OrchIdle
  /\ MgrIdle
  /\ ParIdle

NextRoute == QuickRouteCall

SpecRoute == InitRoute /\ [][NextRoute]_vars

\* The words of a trigger phrase: the maximal runs of characters other than
\* the space.
WordStarts(phrase) ==
  { j \in 1..Len(phrase) : phrase[j] /= " " /\ (j = 1 \/ phrase[j - 1] = " ") }

\* Whether a phrase occurs in a message, letter case set aside.
OccursIn(phrase, message) ==
  \E b \in 1..Len(message) :
    /\ b + Len(phrase) - 1 <= Len(message)
    /\ \A j \in 1..Len(phrase) : ToLowerCase(<<message[b + j - 1]>>) = ToLowerCase(<<phrase[j]>>)

RECURSIVE SumOver(_, _)
SumOver(S, f) ==
  IF S = {} THEN 0
  ELSE LET x == CHOOSE y \in S : TRUE IN f[x] + SumOver(S \ {x}, f)

\* The score of the k-th sub-agent: the word counts of its triggers that
\* occur in the message, added up.
ScoreOf(k, message) ==
  LET trig == SUB_AGENTS[k].triggers
      hits == { j \in 1..Len(trig) : OccursIn(trig[j], message) }
  IN SumOver(hits, [j \in 1..Len(trig) |-> Cardinality(WordStarts(trig[j]))])

\* C9: quickRoute returns the key with the highest score (the sum of the word
\* counts of the sub-agent's triggers that occur in the message, letter case
\* set aside), the earliest key of the catalog among equal highest scores,
\* and null exactly when no trigger of any sub-agent occurs in the message.
C9_QuickRouteScoring ==
  rtResult /= None =>
    LET K == 1..Len(SUB_AGENTS)
        anyHit == \E k \in K : \E j \in 1..Len(SUB_AGENTS[k].triggers) :
                    OccursIn(SUB_AGENTS[k].triggers[j], rtMessage)
    IN /\ (rtResult.key = "null") <=> ~anyHit
       /\ anyHit =>
            \E k \in K :
              /\ rtResult.key = SUB_AGENTS[k].key
              /\ \A o \in K : ScoreOf(o, rtMessage) <= ScoreOf(k, rtMessage)
              /\ \A o \in K : o < k => ScoreOf(o, rtMessage) < ScoreOf(k, rtMessage)

\* Two sub-agents score the same on "Review code" and the earlier one wins.
C9_Witness ==
  /\ rtResult /= None
  /\ rtMessage = <<"R","e","v","i","e","w"," ","c","o","d","e">>
  /\ rtResult.key = "code_writer"
  /\ ScoreOf(4, rtMessage) = ScoreOf(6, rtMessage)

\* ---------------------------------------------------------------------------
\* mcp/server.ts: the bytes on standard input
\* ---------------------------------------------------------------------------

\* The input is a sequence of pieces of text: the newline, a blank, bytes that
\* belong to no JSON text, and the pieces of the JSON text of an object: its
\* braces and its "id", "method", "params", "result" and "error" members, each
\* with the JSON text of its value.
Tok(k, v) == [k |-> k, v |-> v]

NL == Tok("nl", "")

SP == Tok("sp", "")

Junk == Tok("junk", "")

LBrace == Tok("{", "")

RBrace == Tok("}", "")

IdField(i) == Tok("id", i)

MethodField(m) == Tok("method", m)

ParamsField(p) == Tok("params", p)

ResultField(r) == Tok("result", r)

ErrorField(e) == Tok("error", e)

\* The text of a request; an id or params of Undefined is left out.
RequestLine(id, method, params) ==
  <<LBrace>>
    \o (IF id = Undefined THEN <<>> ELSE <<IdField(id)>>)
    \o <<MethodField(method)>>
    \o (IF params = Undefined THEN <<>> ELSE <<ParamsField(params)>>)
    \o <<RBrace>>

\* The value of the last member of that kind in the text of an object.
Member(text, k) ==
  LET at == { j \in 1..Len(text) : text[j].k = k } IN
    IF at = {} THEN Undefined
    ELSE text[CHOOSE j \in at : \A o \in at : o <= j].v

\* JSON.parse(message) as JsonRpcRequest: blanks between the pieces are
\* skipped; anything but the text of one object is a SyntaxError.
JsonParse(message) ==
  LET text == SelectSeq(message, LAMBDA t : t /= SP) IN
    IF /\ Len(text) >= 2
       /\ text[1] = LBrace
       /\ text[Len(text)] = RBrace
       /\ \A j \in 2..(Len(text) - 1) :
            text[j].k \in {"id", "method", "params", "result", "error"}
    THEN [ok |-> TRUE,
          value |-> [id |-> Member(text, "id"), method |-> Member(text, "method"),
                     params |-> Member(text, "params"), result |-> Member(text, "result"),
                     error |-> Member(text, "error")]]
    ELSE [ok |-> FALSE,
          value |-> [id |-> Undefined, method |-> Undefined, params |-> Undefined,
                     result |-> Undefined, error |-> Undefined]]

\* The params values of the requests: what `params` is, and the name and the
\* arguments it carries.
ParamsValue(p) ==
  CASE p = "call_obj"      -> [isObject |-> TRUE, name |-> "devweaver_read_state", arguments |-> "in1"]
    [] p = "call_progress" -> [isObject |-> TRUE, name |-> "devweaver_get_progress", arguments |-> "in2"]
    [] p = "call_throw"    -> [isObject |-> TRUE, name |-> "devweaver_add_phase", arguments |-> "in1"]
    [] p = "call_registry" -> [isObject |-> TRUE, name |-> "t_str", arguments |-> "in1"]
    [] OTHER               -> [isObject |-> FALSE, name |-> Undefined, arguments |-> Undefined]

\* The lines a driver sends.
ServerLines ==
  { <<Junk>>,
    <<LBrace, MethodField("ping")>>,
    <<>>,
    <<SP>>,
    RequestLine("1", "initialize", Undefined),
    RequestLine(Undefined, "initialized", Undefined),
    RequestLine("2", "initialized", Undefined),
    RequestLine("1", "tools/list", Undefined),
    RequestLine("1", "tools/call", "call_obj"),
    RequestLine("2", "tools/call", "call_progress"),
    RequestLine("2", "tools/call", "call_throw"),
    RequestLine("2", "tools/call", "call_registry"),
    RequestLine("1", "tools/call", "a string"),
    RequestLine("1", "tools/call", Undefined),
    <<SP>> \o RequestLine("2", "ping", Undefined),
    RequestLine(Undefined, "notifications/initialized", Undefined),
    RequestLine("1", "resources/list", Undefined) }

MaxLines == 2

RECURSIVE ScriptsOf(_)
\* The inputs of n lines, each ended by a newline.
ScriptsOf(n) ==
  IF n = 0 THEN { <<>> }
  ELSE { sc \o l \o <<NL>> : sc \in ScriptsOf(n - 1), l \in ServerLines }

ServerScripts == UNION { ScriptsOf(n) : n \in 0..MaxLines }

\* ---------------------------------------------------------------------------
\* mcp/server.ts: DevWeaverMCPServer
\* ---------------------------------------------------------------------------

\* this.tools = getDevWeaverTools(): tools of the server, with what their
\* execute does: return a ToolOutput object, or throw (devweaver_add_phase
\* where the project has no roadmap).
ServerTools ==
  << [name |-> "devweaver_read_state", description |-> <<"desc", "devweaver_read_state">>,
      input_schema |-> <<"schema", "devweaver_read_state">>, execute |-> "hObj"],
     [name |-> "devweaver_get_progress", description |-> <<"desc", "devweaver_get_progress">>,
      input_schema |-> <<"schema", "devweaver_get_progress">>, execute |-> "hObj"],
     [name |-> "devweaver_add_phase", description |-> <<"desc", "devweaver_add_phase">>,
      input_schema |-> <<"schema", "devweaver_add_phase">>, execute |-> "hThrow"] >>

Body(kind, v) == [kind |-> kind, v |-> v]

NoBody == Body("none", <<>>)

\* A JsonRpcResponse as JSON.stringify writes it: an id of Undefined is left out.
ResultResponse(id, result) ==
  [id |-> id, ok |-> TRUE, code |-> 0, message |-> <<>>, body |-> result]

ErrorResponse(id, code, message, data) ==
  [id |-> id, ok |-> FALSE, code |-> code, message |-> message, body |-> data]

NoResponse == [id |-> Undefined, ok |-> FALSE, code |-> 0, message |-> <<>>, body |-> NoBody]

NoCall == [seq |-> 0, id |-> Undefined, name |-> Undefined, execute |-> Undefined,
           arguments |-> Undefined]

\* What handling one line leads to: a response written at once ("sync"), a
\* response written when the promise of processRequest is fulfilled (after one
\* turn of the microtask queue, "tick1", or after the extra turn of `return
\* await`, "tick2"), a tool call in flight ("call"), or nothing ("none").
Item(phase, seq, resp, call) == [phase |-> phase, seq |-> seq, resp |-> resp, call |-> call]

\* handleInitialize
HandleInitialize(id) ==
  ResultResponse(id, Body("initialize", <<"2024-11-05", "devweaver", "1.0.0">>))

\* handleListTools
HandleListTools(id) ==
  ResultResponse(id,
    Body("tools", [j \in 1..Len(ServerTools) |->
                     [name |-> ServerTools[j].name,
                      description |-> ServerTools[j].description,
                      inputSchema |-> ServerTools[j].input_schema]]))

\* this.tools.find(t => t.name === name): its place in the list, 0 for undefined
FindTool(name) ==
  IF \E j \in 1..Len(ServerTools) : ServerTools[j].name = name
  THEN CHOOSE j \in 1..Len(ServerTools) :
         /\ ServerTools[j].name = name
         /\ \A o \in 1..(j - 1) : ServerTools[o].name /= name
  ELSE 0

\* JSON.stringify(result) where the text of the tool result is built
ToolTextCompact(result) ==
  IF result.type = "string" THEN result.v ELSE <<"json", result.v>>

\* typeof result === 'string' ? result : JSON.stringify(result, null, 2)
ToolText(result) ==
  IF result.type = "string" THEN result.v ELSE <<"json indented by 2", result.v>>

\* a catch that reports the failure of the tool as invalid params, without data
CallToolResponseNoData(id, outcome) ==
  IF outcome.kind = "return"
  THEN ResultResponse(id, Body("content", <<[type |-> "text", text |-> ToolText(outcome.val)]>>))
  ELSE ErrorResponse(id, -32602, <<"Tool execution failed">>, NoBody)

\* handleCallTool, after the await of tool.execute: the try and its catch
CallToolResponse(id, outcome) ==
  IF outcome.kind = "return"
  THEN ResultResponse(id, Body("content", <<[type |-> "text", text |-> ToolText(outcome.val)]>>))
  ELSE ErrorResponse(id, -32603, <<"Tool execution failed">>, Body("data", outcome.msg))

\* handleCallTool, up to the await of tool.execute
HandleCallTool(id, params, seq) ==
  IF params = Undefined \/ ~ParamsValue(params).isObject
  THEN Item("tick2", seq, ErrorResponse(id, -32602, <<"Invalid params">>, NoBody), NoCall)
  ELSE LET pv == ParamsValue(params)
           at == FindTool(pv.name)
       IN IF at = 0
          THEN Item("tick2", seq,
                    ErrorResponse(id, -32602, <<"Tool not found: ", pv.name>>, NoBody), NoCall)
          ELSE Item("call", seq, NoResponse,
                    [seq |-> seq, id |-> id, name |-> pv.name,
                     execute |-> ServerTools[at].execute, arguments |-> pv.arguments])

\* processRequest
ProcessRequest(request, seq) ==
  CASE request.method = "initialize"  -> Item("tick1", seq, HandleInitialize(request.id), NoCall)
    [] request.method = "initialized" -> Item("none", seq, NoResponse, NoCall)
    [] request.method = "tools/list"  -> Item("tick1", seq, HandleListTools(request.id), NoCall)
    [] request.method = "tools/call"  -> HandleCallTool(request.id, request.params, seq)
    [] request.method = "ping"        ->
         Item("tick1", seq, ResultResponse(request.id, Body("status", <<"ok">>)), NoCall)
    [] OTHER ->
         Item("tick1", seq,
              ErrorResponse(request.id, -32601, <<"Method not found: ", request.method>>, NoBody),
              NoCall)

\* the catch of handleMessage: sendError(undefined, -32700, 'Parse error', error)
ParseErrorResponse ==
  ErrorResponse(Undefined, -32700, <<"Parse error">>, Body("data", <<"SyntaxError">>))

\* handleMessage
HandleMessage(message, seq) ==
  LET parsed == JsonParse(message) IN
    IF parsed.ok
    THEN ProcessRequest(parsed.value, seq)
    ELSE Item("sync", seq, ParseErrorResponse, NoCall)

\* line.trim() is the empty string
IsBlank(line) == \A j \in 1..Len(line) : line[j] = SP

\* a loop over the lines that the first line that does not parse ends
LinesUntilParseError(lines) ==
  LET todo == SelectSeq(lines, LAMBDA l : ~IsBlank(l))
      bad == { j \in 1..Len(todo) : ~JsonParse(todo[j]).ok }
  IN IF bad = {} THEN todo
     ELSE SubSeq(todo, 1, CHOOSE j \in bad : \A o \in bad : j <= o)

\* for (const line of lines) if (line.trim()) this.handleMessage(line): the
\* lines handled
LinesToHandle(lines) == SelectSeq(lines, LAMBDA l : ~IsBlank(l))

\* The responses of the items of one phase, in the order of their lines.
Written(items, phase) ==
  LET sel == SelectSeq(items, LAMBDA it : it.phase = phase) IN
    [j \in 1..Len(sel) |-> [req |-> sel[j].seq, line |-> sel[j].resp]]

\* new DevWeaverMCPServer().start()
SrvRunning(script) ==
  /\ srvState = "running"
  /\ srvInput = script
  /\ srvRead = <<>>
  /\ srvBuffer = <<>>
  /\ srvHandled = <<>>
  /\ srvCalls = {}
  /\ srvOut = <<>>

\* a data handler that splits the chunk alone
ChunkOnly(buffer, chunk) == chunk

\* buffer += chunk
BufferPlusChunk(buffer, chunk) == buffer \o chunk

\* process.stdin.on('data'): a chunk of n bytes arrives; the handler runs, and
\* then the microtasks it queued
StdinData(n) ==
  /\ srvState = "running"
  /\ n \in 1..Len(srvInput)
  /\ LET chunk == SubSeq(srvInput, 1, n)
         pieces == Split(BufferPlusChunk(srvBuffer, chunk), NL)
         lines == SubSeq(pieces, 1, Len(pieces) - 1)
         todo == LinesToHandle(lines)
         items == [j \in 1..Len(todo) |-> HandleMessage(todo[j], Len(srvHandled) + j)]
         calls == SelectSeq(items, LAMBDA it : it.phase = "call")
     IN
       /\ srvInput' = SubSeq(srvInput, n + 1, Len(srvInput))
       /\ srvRead' = srvRead \o chunk
       /\ srvBuffer' = pieces[Len(pieces)]
       /\ srvHandled' = srvHandled \o
            [j \in 1..Len(todo) |->
               [seq |-> Len(srvHandled) + j, line |-> todo[j], parsed |-> JsonParse(todo[j])]]
       /\ srvOut' = srvOut \o Written(items, "sync") \o Written(items, "tick1")
                           \o Written(items, "tick2")
       /\ srvCalls' = srvCalls \cup { calls[j].call : j \in 1..Len(calls) }
  /\ UNCHANGED srvState
  /\ UNCHANGED outsideServer

\* the promise of tool.execute(args) settles: the rest of handleCallTool, and
\* sendResponse
ToolCompletes(c) ==
  /\ srvState = "running"
  /\ c \in srvCalls
  /\ srvCalls' = srvCalls \ {c}
  /\ srvOut' = Append(srvOut,
       [req |-> c.seq, line |-> CallToolResponse(c.id, HandlerRun(c.execute, c.arguments))])
  /\ UNCHANGED <<srvState, srvInput, srvRead, srvBuffer, srvHandled>>
  /\ UNCHANGED outsideServer

\* process.stdin.on('end'): process.exit(0)
StdinEnd ==
  /\ srvState = "running"
  /\ srvInput = <<>>
  /\ srvState' = "exited"
  /\ UNCHANGED <<srvInput, srvRead, srvBuffer, srvHandled, srvCalls, srvOut>>
  /\ UNCHANGED outsideServer

\* process.on('SIGINT'): process.exit(0)
Sigint ==
  /\ srvState = "running"
  /\ srvState' = "exited"
  /\ UNCHANGED <<srvInput, srvRead, srvBuffer, srvHandled, srvCalls, srvOut>>
  /\ UNCHANGED outsideServer

InitServer ==
  /\ tools = EngineRegistry
  /\ lastExec = None
  /\ execCount = 0
  /\ handlerCalls = <<>>
  /\ registerLog = RegisterLogOf(EngineRegistry)
  /\ EngIdle
  /\ RouteIdle
  /\ \E script \in ServerScripts : SrvRunning(script)
  /\ CliIdle
  /\ OrchIdle
  /\ MgrIdle
  /\ ParIdle

NextServer ==
  \/ \E n \in 1..Len(srvInput) : StdinData(n)
  \/ \E c \in srvCalls : ToolCompletes(c)
  \/ StdinEnd
  \/ Sigint

SpecServer == InitServer /\ [][NextServer]_vars

\* ---------------------------------------------------------------------------
\* Properties of the RPC server
\* ---------------------------------------------------------------------------

\* the responses written for the line handled as number seq
OutFor(seq) == SelectSeq(srvOut, LAMBDA o : o.req = seq)

\* the tool call of the line handled as number seq has not settled
InFlight(seq) == \E c \in srvCalls : c.seq = seq

\* the complete lines read so far that are not blank
CompleteLinesRead ==
  LET pieces == Split(srvRead, NL) IN
    SelectSeq(SubSeq(pieces, 1, Len(pieces) - 1),
              LAMBDA l : \E j \in 1..Len(l) : l[j] /= SP)

\* the line handled as number seq is answered by one response with its id
AnsweredOnce(seq) ==
  /\ Len(OutFor(seq)) = 1
  /\ OutFor(seq)[1].line.id = srvHandled[seq].parsed.value.id

\* C6: a complete line that is not valid JSON produces exactly one error
\* response, with code -32700 and no id, and the server keeps reading: every
\* complete non-blank line read is handled, and a valid request line handled
\* after an invalid one is answered once (a tool call once its handler has
\* settled; the `initialized` notification has no response).
C6_ParseErrorAndContinue ==
  /\ Len(srvHandled) = Len(CompleteLinesRead)
  /\ \A j \in 1..Len(srvHandled) :
       /\ srvHandled[j].line = CompleteLinesRead[j]
       /\ ~srvHandled[j].parsed.ok =>
            /\ Len(OutFor(j)) = 1
            /\ OutFor(j)[1].line.code = -32700
            /\ OutFor(j)[1].line.id = Undefined
            /\ ~OutFor(j)[1].line.ok
            /\ Len(SelectSeq(srvOut, LAMBDA o : o.line.code = -32700)) =
                 Cardinality({ k \in 1..Len(srvHandled) : ~srvHandled[k].parsed.ok })
       /\ ( /\ srvHandled[j].parsed.ok
            /\ \E k \in 1..(j - 1) : ~srvHandled[k].parsed.ok
            /\ srvHandled[j].parsed.value.method /= "initialized"
            /\ ~InFlight(j) )
          => AnsweredOnce(j)

C6_Witness ==
  \E j \in 1..Len(srvHandled) : \E k \in 1..(j - 1) :
    /\ ~srvHandled[k].parsed.ok
    /\ Len(OutFor(k)) = 1
    /\ srvHandled[j].parsed.ok
    /\ srvHandled[j].parsed.value.id /= Undefined
    /\ AnsweredOnce(j)

\* C7: every parsed request that carries an id gets exactly one response line
\* with the same id, whatever its method, once its processing has completed.
C7_EveryRequestWithIdAnswered ==
  \A j \in 1..Len(srvHandled) :
    ( /\ srvHandled[j].parsed.ok
      /\ srvHandled[j].parsed.value.id /= Undefined
      /\ ~InFlight(j) )
    => AnsweredOnce(j)

\* the result of registry.execute and a response of tools/call are the same
\* logical result
SameLogicalResult(outcome, resp) ==
  IF outcome.kind = "return"
  THEN /\ resp.ok
       /\ resp.body.kind = "content"
       /\ Len(resp.body.v) = 1
       /\ resp.body.v[1].type = "text"
       /\ IF outcome.val.type = "string"
          THEN resp.body.v[1].text = outcome.val.v
          ELSE resp.body.v[1].text \in { <<"json", outcome.val.v>>,
                                         <<"json indented by 2", outcome.val.v>> }
  ELSE ~resp.ok

\* registry.names(), as a set
RegisteredNames == { RegistryNames(tools)[j] : j \in 1..Len(tools) }

\* the names of a tools/list result
ListedNames(resp) == { resp.body.v[j].name : j \in 1..Len(resp.body.v) }

\* the line handled as number seq is a request of that method
IsRequest(seq, method) ==
  /\ srvHandled[seq].parsed.ok
  /\ srvHandled[seq].parsed.value.method = method

\* the line handled as number seq is a tools/call whose params is an object
IsToolCall(seq) ==
  /\ IsRequest(seq, "tools/call")
  /\ srvHandled[seq].parsed.value.params /= Undefined
  /\ ParamsValue(srvHandled[seq].parsed.value.params).isObject

ServerToolsNamed(name) == { j \in 1..Len(ServerTools) : ServerTools[j].name = name }

ServerMethods == {"initialize", "initialized", "tools/list", "tools/call", "ping"}

\* the line handled as number seq is a tools/call for a tool of the server
\* whose execute throws
IsThrowingCall(seq) ==
  /\ IsToolCall(seq)
  /\ LET at == FindTool(ParamsValue(srvHandled[seq].parsed.value.params).name) IN
       at /= 0 /\ HandlerRun(ServerTools[at].execute, "in1").kind = "throw"

\* the line handled as number seq is a tools/call without params, with params
\* that is no object, or for a name that is no tool of the server
IsBadCall(seq) ==
  /\ IsRequest(seq, "tools/call")
  /\ \/ ~IsToolCall(seq)
     \/ FindTool(ParamsValue(srvHandled[seq].parsed.value.params).name) = 0

IsUnknownMethod(seq) ==
  /\ srvHandled[seq].parsed.ok
  /\ srvHandled[seq].parsed.value.method \notin ServerMethods

\* the line handled as number seq got one response: an error with this code
\* and the id of the request
ErrorAnswer(seq, code) ==
  /\ Len(OutFor(seq)) = 1
  /\ ~OutFor(seq)[1].line.ok
  /\ OutFor(seq)[1].line.code = code
  /\ OutFor(seq)[1].line.id = srvHandled[seq].parsed.value.id

\* C18: a tools/call whose handler throws is answered, once the handler has
\* settled, by one error response with code -32603 whose data is the message
\* of the exception; a tools/call with no params, with params that is not an
\* object, or for a name the server has no tool for, by one error response with
\* code -32602; a request with an unknown method by one error response with
\* code -32601; writing a response never ends the server, and every request
\* handled after such a request is answered once with its id (a tool call once
\* its handler has settled; `initialized` is the notification and has no
\* response).
C18_ToolCallErrors ==
  /\ [](\A j \in 1..Len(srvHandled) :
         /\ (IsThrowingCall(j) /\ ~InFlight(j)) =>
              /\ ErrorAnswer(j, -32603)
              /\ LET pv == ParamsValue(srvHandled[j].parsed.value.params) IN
                   OutFor(j)[1].line.body =
                     Body("data", HandlerRun(ServerTools[FindTool(pv.name)].execute,
                                             pv.arguments).msg)
         /\ IsBadCall(j) => ErrorAnswer(j, -32602)
         /\ IsUnknownMethod(j) => ErrorAnswer(j, -32601)
         /\ (IsThrowingCall(j) \/ IsBadCall(j) \/ IsUnknownMethod(j)) =>
              \A l \in (j + 1)..Len(srvHandled) :
                ( /\ srvHandled[l].parsed.ok
                  /\ srvHandled[l].parsed.value.method /= "initialized"
                  /\ ~InFlight(l) )
                => AnsweredOnce(l))
  /\ [][ Len(srvOut') > Len(srvOut) => (srvState = "running" /\ srvState' = "running") ]_vars

\* the chunk an action has read
ChunkRead == SubSeq(srvRead', Len(srvRead) + 1, Len(srvRead'))

\* C27: the lines handled are a function of the bytes read alone, however they
\* were cut into chunks: they are the complete lines of the input that are not
\* blank, each handled once, in the order of the input, and the buffer is what
\* follows the last newline; a line is handled by the data event that brings
\* its newline, not before, also when earlier chunks brought its beginning; a
\* line that is empty or holds only white space is not handled and gets no
\* response.
C27_FramingIgnoresChunks ==
  /\ [](LET pieces == Split(srvRead, NL) IN
          /\ srvBuffer = pieces[Len(pieces)]
          /\ [j \in 1..Len(srvHandled) |-> srvHandled[j].line] = CompleteLinesRead
          /\ \A j \in 1..Len(srvHandled) :
               /\ srvHandled[j].seq = j
               /\ ~IsBlank(srvHandled[j].line)
          /\ \A j \in 1..Len(srvOut) : srvOut[j].req \in 1..Len(srvHandled)
          /\ Len(srvOut) <= Len(CompleteLinesRead))
  /\ [][ /\ Len(srvHandled') >= Len(srvHandled)
         /\ SubSeq(srvHandled', 1, Len(srvHandled)) = srvHandled
         /\ (\A j \in 1..Len(ChunkRead) : ChunkRead[j] /= NL) => srvHandled' = srvHandled
         /\ ( /\ srvBuffer /= <<>>
              /\ \E j \in 1..Len(ChunkRead) : ChunkRead[j] = NL
              /\ ~IsBlank(srvBuffer \o Split(ChunkRead, NL)[1]) )
            => /\ Len(srvHandled') > Len(srvHandled)
               /\ srvHandled'[Len(srvHandled) + 1].line =
                    srvBuffer \o Split(ChunkRead, NL)[1] ]_vars

\* A blank line and the beginning of a request have been read: nothing is
\* handled and nothing is written, and the data event that brings the rest of
\* the request can happen.
C27_Witness ==
  /\ srvState = "running"
  /\ Len(Split(srvRead, NL)) = 2
  /\ Split(srvRead, NL)[1] = <<SP>>
  /\ srvBuffer /= <<>>
  /\ ~IsBlank(srvBuffer)
  /\ srvBuffer = Split(srvRead, NL)[2]
  /\ srvHandled = <<>>
  /\ srvOut = <<>>
  /\ \E n \in 1..Len(srvInput) : srvInput[n] = NL /\ ENABLED StdinData(n)

\* C24: the server writes no response line for a parsed message that carries
\* no id, whatever its method: the `initialized` notification, the
\* notifications/initialized notification the stdio client of this program
\* writes, or any other.
C24_NotificationsUnanswered ==
  \A j \in 1..Len(srvHandled) :
    (srvHandled[j].parsed.ok /\ srvHandled[j].parsed.value.id = Undefined)
      => OutFor(j) = <<>>

\* a tools/call whose handler threw was answered with -32603, and the request
\* after it, a tools/call for an unknown tool, with -32602, the server running
C18_Witness ==
  /\ srvState = "running"
  /\ Len(srvHandled) = 2
  /\ IsThrowingCall(1)
  /\ ErrorAnswer(1, -32603)
  /\ IsBadCall(2)
  /\ ErrorAnswer(2, -32602)

\* ---------------------------------------------------------------------------
\* tools/mcp.ts: StdioMCPClient
\* ---------------------------------------------------------------------------

MaxRequests == 3

MaxChildLines == 2

\* JSON.stringify of the number id
NumberText(n) == ToString(n)

\* typeof msg.id === 'number', for the JSON text of msg.id
IsNumber(text) == \E n \in 0..(MaxRequests + 1) : NumberText(n) = text

\* the number a JSON text stands for
NumberOf(text) == CHOOSE n \in 0..(MaxRequests + 1) : NumberText(n) = text

\* if (msg.error): the member is there and its value is not null, false, 0 or ""
Truthy(text) == text \notin {Undefined, "null", "false", "0", "\"\""}

\* String(error.message)
ErrorMessage(text) ==
  IF text = "{\"message\":\"boom\"}" THEN "boom" ELSE "undefined"

\* the response of the child that carries a result for request id
ResultLine(id) == <<LBrace, IdField(NumberText(id)), ResultField("{}"), RBrace>>

\* The lines the child process writes: a result for a request, an error for
\* the first request, a notification, and a line that is no JSON.
ChildLines ==
  { ResultLine(n) : n \in 1..MaxRequests }
  \cup
  { <<LBrace, IdField("1"), ErrorField("{\"message\":\"boom\"}"), RBrace>>,
    <<LBrace, MethodField("notifications/progress"), RBrace>>,
    <<Junk>> }

\* new Promise((resolve, reject) => ...): a promise, and what settles it. A
\* promise is settled once; resolve and reject do nothing after that (calls
\* counts the calls of resolve and reject).
NewPromise(method) == [method |-> method, state |-> "pending", value |-> <<>>, calls |-> 0]

Resolve(promise, value) ==
  IF promise.state = "pending"
  THEN [promise EXCEPT !.state = "resolved", !.value = <<value>>, !.calls = @ + 1]
  ELSE [promise EXCEPT !.calls = @ + 1]

Reject(promise, message) ==
  IF promise.state = "pending"
  THEN [promise EXCEPT !.state = "rejected", !.value = message, !.calls = @ + 1]
  ELSE [promise EXCEPT !.calls = @ + 1]

\* new Error(`MCP request timed out: ${method}`)
TimedOutMsg(method) == <<"MCP request timed out: ", method>>

\* the promise of request n was rejected by its timeout
TimedOut(promises, n) ==
  /\ n \in 1..Len(promises)
  /\ promises[n].state = "rejected"
  /\ promises[n].value = TimedOutMsg(promises[n].method)

\* What _onData and the timers work on.
ClientState(pending, promises, late) ==
  [pending |-> pending, promises |-> promises, late |-> late]

\* a loop body that settles the promise of a response and leaves its entry in
\* the Map
OnLineKeepsEntry(line, st) ==
  IF IsBlank(line) THEN st
  ELSE LET parsed == JsonParse(line)
           id == parsed.value.id
       IN IF parsed.ok /\ IsNumber(id) /\ NumberOf(id) \in st.pending
          THEN LET n == NumberOf(id) IN
                 ClientState(
                   st.pending,
                   [st.promises EXCEPT ![n] =
                      IF Truthy(parsed.value.error)
                      THEN Reject(@, <<ErrorMessage(parsed.value.error)>>)
                      ELSE Resolve(@, parsed.value.result)],
                   st.late)
          ELSE st

\* the body of the for loop of _onData, for one line
OnLine(line, st) ==
  IF IsBlank(line) THEN st
  ELSE LET parsed == JsonParse(line)
           id == parsed.value.id
       IN IF parsed.ok /\ IsNumber(id) /\ NumberOf(id) \in st.pending
          THEN LET n == NumberOf(id) IN
                 ClientState(
                   st.pending \ {n},
                   [st.promises EXCEPT ![n] =
                      IF Truthy(parsed.value.error)
                      THEN Reject(@, <<ErrorMessage(parsed.value.error)>>)
                      ELSE Resolve(@, parsed.value.result)],
                   st.late)
          ELSE ClientState(
                 st.pending, st.promises,
                 IF parsed.ok /\ IsNumber(id) /\ TimedOut(st.promises, NumberOf(id))
                 THEN st.late \cup {NumberOf(id)}
                 ELSE st.late)

RECURSIVE OnDataLines(_, _)
\* for (const line of lines) of _onData
OnDataLines(lines, st) ==
  IF lines = <<>> THEN st
  ELSE OnDataLines(Tail(lines), OnLine(Head(lines), st))

\* a timeout callback that gives the connection up: every entry is dropped
TimeoutClears(pending, id) == {}

\* a timeout callback that rejects and leaves the entry in the Map
TimeoutKeepsEntry(pending, id) == pending

\* this.pending.delete(id) of the timeout callback
TimeoutDeletes(pending, id) == pending \ {id}

\* a timeout callback that does nothing once the child process is gone
OnTimeoutWhenAlive(id, st) ==
  IF id \in st.pending /\ cliProcess = "alive"
  THEN ClientState(
         TimeoutDeletes(st.pending, id),
         [st.promises EXCEPT ![id] = Reject(@, TimedOutMsg(@.method))],
         st.late)
  ELSE st

\* the callback of setTimeout in _sendRequest
OnTimeout(id, st) ==
  IF id \in st.pending
  THEN ClientState(
         TimeoutDeletes(st.pending, id),
         [st.promises EXCEPT ![id] = Reject(@, TimedOutMsg(@.method))],
         st.late)
  ELSE st

\* a message written to the child's standard input (nothing is written when
\* this.process is null)
Write(sent, process, id, method) ==
  IF process = "alive" THEN Append(sent, [id |-> id, method |-> method]) ELSE sent

\* _sendRequest(method, params)
SendRequest(method, process) ==
  LET id == cliRequestId + 1 IN
    /\ cliRequestId' = id
    /\ cliPending' = cliPending \cup {id}
    /\ cliPromises' = Append(cliPromises, NewPromise(method))
    /\ cliSent' = Write(cliSent, process, id, method)
    /\ cliTimers' = cliTimers \cup {id}

\* a connect that goes on, whatever the outcome of the initialize request
ConnectGoesOnAnyway(promises) ==
  /\ IF cliState = "connecting" /\ promises[1].state /= "pending"
     THEN /\ cliState' = "connected"
          /\ cliSent' = Write(cliSent, cliProcess, Undefined, "notifications/initialized")
     ELSE /\ cliState' = cliState
          /\ cliSent' = cliSent

\* connect(), after `await this._sendRequest('initialize', ...)`: it goes on
\* when that promise (of request 1) is resolved and throws when it is rejected
ConnectGoesOn(promises) ==
  /\ IF cliState = "connecting" /\ promises[1].state = "resolved"
     THEN /\ cliState' = "connected"
          /\ cliSent' = Write(cliSent, cliProcess, Undefined, "notifications/initialized")
     ELSE /\ cliState' = IF cliState = "connecting" /\ promises[1].state = "rejected"
                         THEN "failed" ELSE cliState
          /\ cliSent' = cliSent

\* new StdioMCPClient(config)
CliNew ==
  /\ cliState = "new"
  /\ cliProcess = "null"
  /\ cliRequestId = 0
  /\ cliPending = {}
  /\ cliBuffer = <<>>
  /\ cliSent = <<>>
  /\ cliTimers = {}
  /\ cliPromises = <<>>
  /\ cliPipe = <<>>
  /\ cliChildLines = 0
  /\ cliLate = {}
  /\ cliAfter = {}

\* connect(), up to its await
Connect ==
  /\ cliState = "new"
  /\ cliState' = "connecting"
  /\ cliProcess' = "alive"
  /\ SendRequest("initialize", "alive")
  /\ UNCHANGED <<cliBuffer, cliPipe, cliChildLines, cliLate, cliAfter>>
  /\ UNCHANGED outsideClient

\* listTools() and callTool(name, args), up to their await
Request(method) ==
  /\ cliState = "connected"
  /\ cliRequestId < MaxRequests
  /\ SendRequest(method, cliProcess)
  /\ cliAfter' = IF \E id \in 1..Len(cliPromises) : TimedOut(cliPromises, id)
                 THEN cliAfter \cup {cliRequestId + 1}
                 ELSE cliAfter
  /\ UNCHANGED <<cliState, cliProcess, cliBuffer, cliPipe, cliChildLines, cliLate>>
  /\ UNCHANGED outsideClient

\* the child process writes a line to its standard output (a result only for
\* a request that was made; a second result for the same request is possible)
ChildWrites(line) ==
  /\ cliProcess = "alive"
  /\ cliChildLines < MaxChildLines
  /\ \A n \in 1..MaxRequests : line = ResultLine(n) => n <= cliRequestId
  /\ cliChildLines' = cliChildLines + 1
  /\ cliPipe' = cliPipe \o line \o <<NL>>
  /\ UNCHANGED <<cliState, cliProcess, cliRequestId, cliPending, cliBuffer, cliSent,
                 cliTimers, cliPromises, cliLate, cliAfter>>
  /\ UNCHANGED outsideClient

\* the 'data' event of the child's standard output with a chunk of n bytes:
\* _onData(chunk), and then the continuations of the promises it settled
StdoutData(n) ==
  /\ cliState \in {"connecting", "connected", "failed"}
  /\ n \in 1..Len(cliPipe)
  /\ LET pieces == Split(cliBuffer \o SubSeq(cliPipe, 1, n), NL)
         st == OnDataLines(SubSeq(pieces, 1, Len(pieces) - 1),
                           ClientState(cliPending, cliPromises, cliLate))
     IN /\ cliPipe' = SubSeq(cliPipe, n + 1, Len(cliPipe))
        /\ cliBuffer' = pieces[Len(pieces)]
        /\ cliPending' = st.pending
        /\ cliPromises' = st.promises
        /\ cliLate' = st.late
        /\ ConnectGoesOn(st.promises)
  /\ UNCHANGED <<cliProcess, cliRequestId, cliTimers, cliChildLines, cliAfter>>
  /\ UNCHANGED outsideClient

\* 30 seconds after a _sendRequest its timer fires (the timers have the same
\* delay, so they fire in the order they were set)
Timeout ==
  /\ cliTimers /= {}
  /\ LET id == CHOOSE i \in cliTimers : \A o \in cliTimers : i <= o
         st == OnTimeout(id, ClientState(cliPending, cliPromises, cliLate))
     IN /\ cliTimers' = cliTimers \ {id}
        /\ cliPending' = st.pending
        /\ cliPromises' = st.promises
        /\ cliLate' = st.late
        /\ ConnectGoesOn(st.promises)
  /\ UNCHANGED <<cliProcess, cliRequestId, cliBuffer, cliPipe, cliChildLines, cliAfter>>
  /\ UNCHANGED outsideClient

\* disconnect(): the manager calls it on the clients of its map only, which
\* are the clients whose connect() has returned
Disconnect ==
  /\ cliState = "connected"
  /\ cliProcess = "alive"
  /\ cliProcess' = "null"
  /\ UNCHANGED <<cliState, cliRequestId, cliPending, cliBuffer, cliSent, cliTimers,
                 cliPromises, cliPipe, cliChildLines, cliLate, cliAfter>>
  /\ UNCHANGED outsideClient

InitClient ==
  /\ RegInit
  /\ EngIdle
  /\ RouteIdle
  /\ SrvIdle
  /\ CliNew
  /\ OrchIdle
  /\ MgrIdle
  /\ ParIdle

NextClient ==
  \/ Connect
  \/ \E method \in {"tools/list", "tools/call"} : Request(method)
  \/ \E line \in ChildLines : ChildWrites(line)
  \/ \E n \in 1..Len(cliPipe) : StdoutData(n)
  \/ Timeout
  \/ Disconnect

SpecClient == InitClient /\ [][NextClient]_vars

\* A timer set by setTimeout is never cleared (no clearTimeout in the class) and
\* keeps the event loop alive, so it fires: the timeout step is taken when it
\* stays possible. Nothing is assumed of the child process or of the callers.
SpecClientLive == SpecClient /\ WF_vars(Timeout)

\* ---------------------------------------------------------------------------
\* Properties of the RPC client
\* ---------------------------------------------------------------------------

\* the bytes a step hands to _onData
Delivered == SubSeq(cliPipe, 1, Len(cliPipe) - Len(cliPipe'))

\* C8: when the timer of a request fires and the request still has its entry
\* in the pending map (no response with its id has come), its promise is
\* rejected with the timeout error and the entry is removed; from then on the
\* promise stays as it is and the id has no entry, and a step that hands
\* _onData one line, a response with that id, changes nothing of the client
\* but its buffer.
C8_TimeoutThenLateResponseIgnored ==
  [][ /\ \A id \in 1..Len(cliPromises) :
           /\ (id \in cliTimers /\ id \notin cliTimers' /\ id \in cliPending) =>
                /\ cliPromises'[id].state = "rejected"
                /\ cliPromises'[id].value = <<"MCP request timed out: ", cliPromises[id].method>>
                /\ id \notin cliPending'
           /\ TimedOut(cliPromises, id) =>
                /\ cliPromises'[id] = cliPromises[id]
                /\ id \notin cliPending
                /\ id \notin cliPending'
      /\ (cliLate' /= cliLate /\ Len(Split(cliBuffer \o Delivered, NL)) = 2) =>
           UNCHANGED <<cliPending, cliPromises, cliState, cliProcess, cliRequestId,
                       cliSent, cliTimers>>
    ]_vars

C8_Witness ==
  \E id \in cliLate :
    /\ TimedOut(cliPromises, id)
    /\ id \notin cliPending
    /\ cliPromises[id].method /= "initialize"

\* the complete lines a step hands to the loop of _onData
HandledLines ==
  LET pieces == Split(cliBuffer \o Delivered, NL) IN SubSeq(pieces, 1, Len(pieces) - 1)

\* C20: when the timer of a pending request fires, the child process is left
\* as it is (not killed), nothing is written to it, and every other pending
\* request stays pending: its entry, its promise and its timer are untouched;
\* and once a request has timed out, a pending request (one sent afterwards
\* included) whose result the child then writes is resolved with that result
\* and its entry removed.
C20_TimeoutIsPerCall ==
  [][ /\ \A id \in cliPending :
           (id \in cliTimers /\ id \notin cliTimers') =>
             /\ cliProcess' = cliProcess
             /\ cliRequestId' = cliRequestId
             /\ \A j \in 1..Len(cliSent') : j \in 1..Len(cliSent) /\ cliSent'[j] = cliSent[j]
             /\ cliTimers' = cliTimers \ {id}
             /\ \A o \in cliPending \ {id} :
                  /\ o \in cliPending'
                  /\ cliPromises'[o] = cliPromises[o]
                  /\ cliPromises'[o].state = "pending"
      /\ \A o \in cliPending :
           ( /\ \E id \in 1..Len(cliPromises) : TimedOut(cliPromises, id)
             /\ cliPipe' /= cliPipe
             /\ Len(cliPipe') < Len(cliPipe)
             /\ \E j \in 1..Len(HandledLines) : HandledLines[j] = ResultLine(o)
             /\ cliPromises[o].method /= "initialize" )
           => /\ cliPromises'[o].state = "resolved"
              /\ cliPromises'[o].value = <<"{}">>
              /\ o \notin cliPending'
              /\ cliProcess' = cliProcess
    ]_vars

\* request 2 timed out; request 3, sent after that, was answered by the child
\* and is resolved; the child is alive
C20_Witness ==
  /\ cliProcess = "alive"
  /\ TimedOut(cliPromises, 2)
  /\ 3 \in cliAfter
  /\ cliPromises[3].state = "resolved"
  /\ cliPending = {}

\* the requests written to the child, without the notification
RequestsSent == SelectSeq(cliSent, LAMBDA m : m.method /= "notifications/initialized")

\* a complete line handed to _onData in this step is a response for request id
ResponseHandled(id) ==
  \E j \in 1..Len(HandledLines) :
    LET parsed == JsonParse(HandledLines[j]) IN
      parsed.ok /\ IsNumber(parsed.value.id) /\ NumberOf(parsed.value.id) = id

\* C21: the ids of the requests are 1, 2, 3, ... in the order the requests are
\* made, each used once; at every moment the pending map holds exactly the ids
\* of the requests made whose promise is still pending (no response handled,
\* no timeout fired); resolve or reject is called at most once for each
\* request; a promise that is settled never changes again; and a promise is
\* settled either by the step that handles a response with its id or by the
\* step in which its timer fires, with the timeout error in that case.
C21_PendingInvariant ==
  /\ [](/\ Len(cliPromises) = cliRequestId
        /\ cliPending = { id \in 1..cliRequestId : cliPromises[id].state = "pending" }
        /\ \A id \in 1..cliRequestId :
             cliPromises[id].calls = (IF cliPromises[id].state = "pending" THEN 0 ELSE 1)
        /\ \A j \in 1..Len(RequestsSent) : \A k \in 1..Len(RequestsSent) :
             j < k => RequestsSent[j].id < RequestsSent[k].id
        /\ \A j \in 1..Len(RequestsSent) : RequestsSent[j].id \in 1..cliRequestId)
  /\ [][ /\ cliRequestId' \in {cliRequestId, cliRequestId + 1}
         /\ \A id \in 1..cliRequestId :
              /\ cliPromises[id].state /= "pending" => cliPromises'[id] = cliPromises[id]
              /\ (cliPromises[id].state = "pending" /\ cliPromises'[id].state /= "pending") =>
                   \/ /\ cliPipe' /= cliPipe
                      /\ ResponseHandled(id)
                   \/ /\ id \in cliTimers /\ id \notin cliTimers'
                      /\ cliPromises'[id].state = "rejected"
                      /\ cliPromises'[id].value = TimedOutMsg(cliPromises[id].method)
       ]_vars

\* the places of cliSent that hold the notification
NotificationsSent == { j \in 1..Len(cliSent) : cliSent[j].method = "notifications/initialized" }

\* C23: the first message connect() writes is the initialize request; the
\* handshake-completion notification is written once, in the step in which
\* the promise of the initialize request is resolved by its response, and
\* connect() returns in that step and not before; every tools/list and
\* tools/call is written after the notification; and when the initialize
\* request is rejected, by an error response or by its timeout, connect()
\* throws and no notification is ever written.
C23_HandshakeOrder ==
  /\ [](/\ cliSent /= <<>> => (cliSent[1].method = "initialize" /\ cliSent[1].id = 1)
        /\ Cardinality(NotificationsSent) <= 1
        /\ cliState = "connected" =>
             (cliPromises[1].state = "resolved" /\ NotificationsSent = {2})
        /\ cliState \in {"new", "connecting"} => Len(cliSent) <= 1
        /\ cliState = "connecting" => cliPromises[1].state = "pending"
        /\ cliState = "failed" =>
             (cliPromises[1].state = "rejected" /\ NotificationsSent = {} /\ Len(cliSent) = 1)
        /\ \A j \in 1..Len(cliSent) :
             cliSent[j].method \in {"tools/list", "tools/call"} =>
               (cliState = "connected" /\ \E k \in NotificationsSent : k < j))
  /\ [][ /\ (cliState = "connecting" /\ cliPromises'[1].state = "resolved") =>
              (cliState' = "connected" /\ ResponseHandled(1))
         /\ (cliState = "connecting" /\ cliPromises'[1].state = "rejected") =>
              (cliState' = "failed" /\ cliSent' = cliSent)
         /\ cliState = "failed" => cliState' = "failed"
       ]_vars

\* the handshake was completed and a tools/list written after it
C23_Witness ==
  /\ cliState = "connected"
  /\ Len(cliSent) = 3
  /\ cliSent[1].method = "initialize"
  /\ cliSent[2].method = "notifications/initialized"
  /\ cliSent[3].method = "tools/list"

\* request 1 was resolved by its response, request 2 timed out and its late
\* response was ignored, request 3 is pending
C21_Witness ==
  /\ cliRequestId = 3
  /\ cliPromises[1].state = "resolved"
  /\ TimedOut(cliPromises, 2)
  /\ 2 \in cliLate
  /\ cliPending = {3}

\* C30: every request of the stdio client settles: the promise of a request
\* made by listTools or callTool (the requests after the first, which is the
\* initialize request of connect) is resolved or rejected in the end, whatever the child process does (writes
\* nothing, writes lines that are no JSON or carry an id of no pending request,
\* writes no more at all) and also when disconnect() is called while the
\* request is outstanding or before it is made.
C30_EveryRequestSettles ==
  \A id \in 2..MaxRequests :
    (Len(cliPromises) >= id) ~>
      (Len(cliPromises) >= id /\ cliPromises[id].state /= "pending" /\ id \notin cliPending)

\* disconnect() was called while request 2 was outstanding, request 3 was made
\* afterwards and so not written; both were rejected by their timers.
C30_Witness ==
  /\ cliProcess = "null"
  /\ cliRequestId = 3
  /\ \E j \in 1..Len(RequestsSent) : RequestsSent[j].id = 2
  /\ \A j \in 1..Len(RequestsSent) : RequestsSent[j].id /= 3
  /\ TimedOut(cliPromises, 2)
  /\ TimedOut(cliPromises, 3)
  /\ cliPending = {}

\* ---------------------------------------------------------------------------
\* orchestrator.ts: orchestrate
\* ---------------------------------------------------------------------------

\* const maxOrchestratorLoops
maxOrchestratorLoops == 10

\* The oracle chooses freely for this many replies; after that it either holds
\* to a reply that calls no sub-agent or ends the conversation.
MaxVaried == 2

\* Object.keys(SUB_AGENTS)
SubAgentKeys == { SUB_AGENTS[k].key : k \in 1..Len(SUB_AGENTS) }

\* Names every object literal inherits from Object.prototype.
ObjectPrototypeNames == {"toString", "constructor", "hasOwnProperty"}

\* a lookup in which any name finds a sub-agent
SubAgentLookupAny(agentName) == "agent"

\* SUB_AGENTS[agentName]: a sub-agent definition, a member inherited from
\* Object.prototype (truthy, and without `fn`), or undefined
SubAgentLookup(agentName) ==
  IF agentName \in SubAgentKeys THEN "agent"
  ELSE IF agentName \in ObjectPrototypeNames THEN "inherited"
  ELSE "undefined"

\* tu.input as { agent, message }, for the inputs the oracle sends
DelegationInput(input) ==
  CASE input = "to_code_writer" -> [agent |-> "code_writer", message |-> "write it"]
    [] input = "to_jira"        -> [agent |-> "jira_management", message |-> "file it"]
    [] input = "to_unknown"     -> [agent |-> "release_manager", message |-> "ship it"]
    [] input = "to_inherited"   -> [agent |-> "toString", message |-> "print it"]
    [] OTHER                    -> [agent |-> Undefined, message |-> Undefined]

\* The replies that call no sub-agent function.
QuietReplies ==
  { Blocks(<<TextBlock("final answer")>>),
    Blocks(<<ToolUse("d1", "delegate_to_agent", "to_unknown")>>) }

\* The replies the oracle gives the orchestrator.
OrchReplies ==
  QuietReplies \cup
  { NoContent,
    Blocks(<<TextBlock("plan"), ToolUse("d1", "delegate_to_agent", "to_code_writer")>>),
    Blocks(<<ToolUse("d1", "delegate_to_agent", "to_unknown"),
             ToolUse("d2", "delegate_to_agent", "to_jira")>>),
    Blocks(<<ToolUse("d1", "delegate_to_agent", "to_code_writer"),
             ToolUse("d2", "delegate_to_agent", "to_unknown")>>),
    Blocks(<<ToolUse("d1", "delegate_to_agent", "to_inherited")>>),
    Blocks(<<ToolUse("d1", "delegate_to_agent", "no_agent")>>),
    Blocks(<<ToolUse("d1", "code_read_file", "in1"),
             ToolUse("d2", "delegate_to_agent", "to_unknown")>>),
    Blocks(<<ToolUse("d1", "code_read_file", "in1")>>) }

\* How subAgent.fn({ message }) settles: runAgent returns a result with a
\* text, returns a result with the empty text, or is rejected.
SubAgentOutcomes ==
  { Return(<<"sub-agent text">>), Return(<<>>), Throw(<<"LLM API error">>) }

\* a tool_result block of the orchestrator
DelegationResult(tu, content) ==
  [type |-> "tool_result", tool_use_id |-> tu.id, content |-> content]

\* content: `Error: Unknown agent "${agentName}"`
UnknownAgentMsg(agentName) == <<"Error: Unknown agent \"", agentName, "\"">>

\* content: `Error from ${agentName}: ${errorMsg}`
ErrorFromMsg(agentName, errorMsg) == <<"Error from ", agentName, ": ">> \o errorMsg

\* content: result.result || 'Sub-agent completed but returned no text.'
ResultOrDefault(text) ==
  IF text /= <<>> THEN text ELSE <<"Sub-agent completed but returned no text.">>

RECURSIVE RunDelegations(_, _, _)
\* The for..of loop over toolUseBlocks from block j on, up to its next await or
\* its end: `await` is the block whose sub-agent is called (0 at the end of
\* the loop), `results` is toolResults by then.
RunDelegations(blocks, j, results) ==
  IF j > Len(blocks) THEN [await |-> 0, results |-> results]
  ELSE LET tu == blocks[j]
           agentName == DelegationInput(tu.input).agent
       IN IF tu.name /= "delegate_to_agent"
          THEN RunDelegations(blocks, j + 1, results)
          ELSE CASE SubAgentLookup(agentName) = "undefined" ->
                      RunDelegations(blocks, j + 1,
                        Append(results, DelegationResult(tu, UnknownAgentMsg(agentName))))
                 [] SubAgentLookup(agentName) = "inherited" ->
                      \* subAgent.fn is undefined: the call throws a TypeError in the try
                      RunDelegations(blocks, j + 1,
                        Append(results,
                               DelegationResult(tu,
                                 ErrorFromMsg(agentName, <<"subAgent.fn is not a function">>))))
                 [] OTHER -> [await |-> j, results |-> results]

\* The state orchestrate is in when it reaches the loop test with i = n.
AtOrchLoopTest(n, msgs, text, delegations) ==
  IF n < maxOrchestratorLoops
  THEN /\ orchPc' = "callLLM"
       /\ orchCalls' = orchCalls + 1
       /\ orchReturned' = None
  ELSE /\ orchPc' = "done"
       /\ orchCalls' = orchCalls
       /\ orchReturned' = [kind |-> "result", result |-> text,
                           delegations |-> delegations, conversationHistory |-> msgs]

\* Where the for..of loop over toolUseBlocks stops: at the await of a
\* sub-agent, or at its end, where the results are pushed and i++ is done.
AfterDelegations(run, blocks, msgs, text, delegations) ==
  IF run.await /= 0
  THEN /\ orchPc' = "subAgent"
       /\ orchIndex' = run.await
       /\ orchResults' = run.results
       /\ orchRuns' = Append(orchRuns, DelegationInput(blocks[run.await].input))
       /\ orchMessages' = msgs
       /\ UNCHANGED <<orchIter, orchCalls, orchReturned>>
  ELSE /\ orchIndex' = 0
       /\ orchResults' = run.results
       /\ orchRuns' = orchRuns
       /\ orchMessages' = Append(msgs, Msg("user", Blocks(run.results)))
       /\ orchIter' = orchIter + 1
       /\ AtOrchLoopTest(orchIter + 1, Append(msgs, Msg("user", Blocks(run.results))),
                         text, delegations)

\* orchestrate(userMessage, conversationHistory), up to the first oracle call
OrchestrateStart(conversationHistory) ==
  /\ orchPc = "idle"
  /\ orchMessages' = conversationHistory \o <<UserText("task")>>
  /\ orchFinal' = <<>>
  /\ orchDelegations' = <<>>
  /\ orchIter' = 0
  /\ AtOrchLoopTest(0, conversationHistory \o <<UserText("task")>>, <<>>, <<>>)
  /\ UNCHANGED <<orchBlocks, orchResults, orchIndex, orchReplies, orchRuns>>
  /\ UNCHANGED outsideOrchestrator

\* `await callLLM(...)` of orchestrate throws: no try encloses it
OrchOracleFail ==
  /\ orchPc = "callLLM"
  /\ orchPc' = "rejected"
  /\ orchReturned' = [kind |-> "error", msg |-> <<"LLM API error">>]
  /\ UNCHANGED <<orchMessages, orchFinal, orchDelegations, orchIter, orchBlocks,
                 orchResults, orchIndex, orchCalls, orchReplies, orchRuns>>
  /\ UNCHANGED outsideOrchestrator

\* the oracle call returns: lines 206-256, up to the first await
OrchOracleReply(content) ==
  /\ orchPc = "callLLM"
  /\ Len(orchReplies) < MaxVaried \/ content \in QuietReplies
  /\ orchReplies' = Append(orchReplies, content)
  /\ LET text == ExtractText(content)
         blocks == ExtractToolUse(content)
         msgs == Append(orchMessages, Msg("assistant", content))
         newText == IF text /= <<>> THEN text ELSE orchFinal
     IN
       /\ orchFinal' = newText
       /\ orchBlocks' = blocks
       /\ IF Len(blocks) = 0
          THEN /\ orchPc' = "done"
               /\ orchMessages' = msgs
               /\ orchReturned' = [kind |-> "result", result |-> newText,
                                   delegations |-> orchDelegations,
                                   conversationHistory |-> msgs]
               /\ orchResults' = <<>>
               /\ UNCHANGED <<orchIter, orchIndex, orchCalls, orchRuns>>
          ELSE AfterDelegations(RunDelegations(blocks, 1, <<>>), blocks, msgs, newText,
                                orchDelegations)
  /\ UNCHANGED orchDelegations
  /\ UNCHANGED outsideOrchestrator

\* the awaited subAgent.fn settles: lines 237-252, and the loop up to its next
\* await
SubAgentSettles(outcome) ==
  /\ orchPc = "subAgent"
  /\ LET tu == orchBlocks[orchIndex]
         agentName == DelegationInput(tu.input).agent
         delegations ==
           IF outcome.kind = "return"
           THEN Append(orchDelegations, [agent |-> agentName, result |-> outcome.val])
           ELSE orchDelegations
         results ==
           IF outcome.kind = "return"
           THEN Append(orchResults, DelegationResult(tu, ResultOrDefault(outcome.val)))
           ELSE Append(orchResults, DelegationResult(tu, ErrorFromMsg(agentName, outcome.msg)))
     IN
       /\ orchDelegations' = delegations
       /\ AfterDelegations(RunDelegations(orchBlocks, orchIndex + 1, results), orchBlocks,
                           orchMessages, orchFinal, delegations)
  /\ UNCHANGED <<orchFinal, orchBlocks, orchReplies>>
  /\ UNCHANGED outsideOrchestrator

InitOrchestrator ==
  /\ RegInit
  /\ EngIdle
  /\ RouteIdle
  /\ SrvIdle
  /\ CliIdle
  /\ OrchIdle
  /\ MgrIdle
  /\ ParIdle

NextOrchestrator ==
  \/ \E h \in PriorChoices : OrchestrateStart(h)
  \/ OrchOracleFail
  \/ \E content \in OrchReplies : OrchOracleReply(content)
  \/ \E outcome \in SubAgentOutcomes : SubAgentSettles(outcome)

SpecOrchestrator == InitOrchestrator /\ [][NextOrchestrator]_vars

\* ---------------------------------------------------------------------------
\* Properties of the orchestrator
\* ---------------------------------------------------------------------------

\* the delegate_to_agent requests of a reply whose agent is no key of the catalog
UnknownAgentRequests(content) ==
  SelectSeq(ExtractToolUse(content),
            LAMBDA tu : /\ tu.name = "delegate_to_agent"
                        /\ DelegationInput(tu.input).agent \notin SubAgentKeys)

\* the results of a list of tool_result blocks that answer request id
ResultsFor(results, id) == SelectSeq(results, LAMBDA r : r.tool_use_id = id)

\* the oracle call of orchestrate was made, is over, and delivered no reply
OrchOracleFailed == orchPc \notin {"idle", "callLLM"} /\ orchCalls > Len(orchReplies)

\* C12: a delegate_to_agent request whose agent is no key of the catalog gets
\* one error tool_result with its id in the results message that follows; no
\* sub-agent function is ever called for such an agent and no delegation is
\* recorded for it; after the results are pushed the next oracle call is made
\* (unless the ten loops are used up), and orchestrate is rejected by nothing
\* but a failure of the oracle.
C12_UnknownAgentInline ==
  /\ \A m \in 1..Len(orchMessages) :
       ( /\ orchMessages[m].role = "assistant"
         /\ Len(UnknownAgentRequests(orchMessages[m].content)) > 0
         /\ ~(orchPc = "subAgent" /\ m = Len(orchMessages)) )
       => /\ m + 1 <= Len(orchMessages)
          /\ orchMessages[m + 1].role = "user"
          /\ orchMessages[m + 1].content.type = "blocks"
          /\ LET req == UnknownAgentRequests(orchMessages[m].content) IN
               \A j \in 1..Len(req) :
                 LET got == ResultsFor(orchMessages[m + 1].content.v, req[j].id) IN
                   /\ Len(got) = 1
                   /\ got[1].type = "tool_result"
                   /\ got[1].content[1] \in {"Error: Unknown agent \"", "Error from "}
  /\ \A j \in 1..Len(orchRuns) : orchRuns[j].agent \in SubAgentKeys
  /\ \A j \in 1..Len(orchDelegations) : orchDelegations[j].agent \in SubAgentKeys
  /\ orchPc = "rejected" => OrchOracleFailed
  /\ orchPc = "callLLM" => orchCalls = Len(orchReplies) + 1 /\ orchCalls = orchIter + 1
  /\ (orchPc = "done" /\ Len(orchReplies) > 0) =>
       \/ Len(ExtractToolUse(orchReplies[Len(orchReplies)])) = 0
       \/ orchIter = maxOrchestratorLoops

\* A finished call in which a request for an unknown agent was answered and the
\* oracle was called again after it.
C12_Witness ==
  /\ orchPc = "done"
  /\ orchReturned.kind = "result"
  /\ \E m \in 1..Len(orchMessages) :
       /\ orchMessages[m].role = "assistant"
       /\ Len(UnknownAgentRequests(orchMessages[m].content)) > 0
       /\ m + 2 <= Len(orchMessages)
       /\ orchMessages[m + 2].role = "assistant"

\* C25: in the conversation orchestrate returns, every tool_use block of an
\* assistant message is answered by exactly one tool_result block with its id
\* in the user message that follows it immediately, whichever tool the block
\* names.
C25_EveryRequestAnswered ==
  (orchPc = "done" /\ orchReturned.kind = "result") =>
    LET history == orchReturned.conversationHistory IN
      \A m \in 1..Len(history) :
        history[m].role = "assistant" =>
          LET req == ExtractToolUse(history[m].content) IN
            \A j \in 1..Len(req) :
              /\ m + 1 <= Len(history)
              /\ history[m + 1].role = "user"
              /\ history[m + 1].content.type = "blocks"
              /\ Len(ResultsFor(history[m + 1].content.v, req[j].id)) = 1

\* a sub-agent run of this call was rejected by a failure of its oracle: the
\* catch clause of the delegation has written its tool_result
SubAgentOracleFailed ==
  \/ \E j \in 1..Len(orchResults) :
       orchResults[j].content[1] = "Error from "
  \/ \E m \in 1..Len(orchMessages) :
       /\ orchMessages[m].role = "user"
       /\ orchMessages[m].content.type = "blocks"
       /\ \E j \in 1..Len(orchMessages[m].content.v) :
            /\ orchMessages[m].content.v[j].type = "tool_result"
            /\ orchMessages[m].content.v[j].content[1] = "Error from "

\* C26: when an oracle call fails during orchestrate, the orchestrator's own or
\* the one of a delegated sub-agent run, orchestrate is rejected with the error
\* and returns no result.
C26_OracleFailureRejects ==
  /\ OrchOracleFailed => orchPc = "rejected"
  /\ SubAgentOracleFailed => orchPc = "rejected"

\* ---------------------------------------------------------------------------
\* tools/mcp.ts: MCPManager
\* ---------------------------------------------------------------------------

MaxConfigs == 2

MaxToolCalls == 1

\* MCPServerConfig: the name and the transport
ServerConfig(name, transport) == [name |-> name, transport |-> transport]

\* The configs a config file may hold.
AllConfigs == { ServerConfig(n, t) : n \in {"a", "a_b"}, t \in {"stdio", "sse"} }

RECURSIVE ConfigLists(_)
\* The lists of at most n configs.
ConfigLists(n) ==
  IF n = 0 THEN { <<>> }
  ELSE LET shorter == ConfigLists(n - 1) IN
         shorter \cup { Append(l, c) : l \in { x \in shorter : Len(x) = n - 1 },
                                       c \in AllConfigs }

\* How `await client.connect()` settles: the handshake succeeds, or it fails
\* (the request of the stdio client times out, the POST of the SSE client is
\* refused).
ConnectOutcomes == { Return(<<>>), Throw(<<"connect failed">>) }

\* How `await client.listTools()` settles: the names of the tools discovered,
\* or a failure.
ListOutcomes ==
  { Return(<<>>), Return(<<"c">>), Return(<<"b_c", "c">>), Return(<<"c", "c">>),
    Throw(<<"MCP request timed out: ", "tools/list">>) }

\* How `await client.callTool(name, args)` settles.
CallOutcomes(client, tool, input) ==
  IF client.transport = "stdio" /\ client.process /= "alive"
  THEN { Throw(<<"MCP request timed out: ", "tools/call">>) }
  ELSE { Return(ObjVal(<<"result of", client.name, tool, input>>)),
         Throw(<<"MCP request timed out: ", "tools/call">>) }

\* `mcp_${serverConfig.name}_${tool.name}`
McpToolName(server, tool) == "mcp_" \o server \o "_" \o tool

\* the ToolDefinition registered for a discovered tool
McpDefinition(server, tool) ==
  [name |-> McpToolName(server, tool), description |-> <<"[MCP:", server, "] ", tool>>]

\* a handler that closes over one tool of the list for every entry
McpHandlerOneTool(client, tool) == "callTool:" \o ToString(client) \o ":" \o "c"

\* the handler registered for a discovered tool: the closure over `client`
\* and `tool`
McpHandler(client, tool) == "callTool:" \o ToString(client) \o ":" \o tool

\* new StdioMCPClient(serverConfig) or new SSEMCPClient(serverConfig)
NewClient(cfg) ==
  [name |-> cfg.name, transport |-> cfg.transport, process |-> "none",
   connected |-> FALSE, listCalls |-> 0]

\* client.connect(), up to its await: the stdio client spawns its child
ConnectBegins(client) ==
  [client EXCEPT !.process = IF client.transport = "stdio" THEN "alive" ELSE "none"]

\* client.disconnect(): the stdio client kills its child, the SSE client
\* does nothing
ClientDisconnect(client) ==
  [client EXCEPT !.process = IF client.process = "alive" THEN "killed" ELSE @]

RECURSIVE RegisterDiscovered(_, _, _, _, _)
\* for (const tool of tools) registry.register(...), from tool j on
RegisterDiscovered(t, server, client, discovered, j) ==
  IF j > Len(discovered) THEN t
  ELSE RegisterDiscovered(
         RegistryRegister(t, McpDefinition(server, discovered[j]),
                          McpHandler(client, discovered[j])),
         server, client, discovered, j + 1)

\* connectAll at the head of its loop over configs, with config k next: the
\* next connectServer call runs up to `await client.connect()`, or connectAll
\* returns totalTools
EnterLoop(configs, k, total, made) ==
  IF k <= Len(configs)
  THEN /\ mgrPc' = "connect"
       /\ mgrIndex' = k
       /\ mgrTotal' = total
       /\ mgrMade' = Append(made, ConnectBegins(NewClient(configs[k])))
       /\ mgrResult' = None
  ELSE /\ mgrPc' = "done"
       /\ mgrIndex' = k
       /\ mgrTotal' = total
       /\ mgrMade' = made
       /\ mgrResult' = [kind |-> "result", total |-> total]

\* a connectServer without its try: the error leaves connectServer
ConnectServerRethrows(error) == [threw |-> TRUE, count |-> 0]

\* the catch of connectServer: the error is logged and 0 is returned
ConnectServerCatch(error) == [threw |-> FALSE, count |-> 0]

\* connectServer ends with an error caught (or not) for client c
ConnectServerFailed(c, error, made) ==
  IF ConnectServerCatch(error).threw
  THEN /\ mgrPc' = "rejected"
       /\ mgrResult' = [kind |-> "error", total |-> 0]
       /\ mgrMade' = made
       /\ UNCHANGED <<mgrIndex, mgrTotal, mgrReturns>>
  ELSE /\ mgrReturns' = Append(mgrReturns,
                               [client |-> c, count |-> ConnectServerCatch(error).count,
                                ok |-> FALSE, discovered |-> <<>>])
       /\ EnterLoop(mgrConfigs, mgrIndex + 1,
                    mgrTotal + ConnectServerCatch(error).count, made)

\* connectAll(configs), up to the first await
ConnectAll(configs) ==
  /\ mgrPc = "idle"
  /\ ~mgrShutdown
  /\ mgrConfigs' = configs
  /\ EnterLoop(configs, 1, 0, mgrMade)
  /\ UNCHANGED <<mgrClients, mgrReturns, mgrCalls, mgrExec, mgrShutdown, tools>>
  /\ UNCHANGED outsideManager

\* `await client.connect()` settles: lines 211-215 up to the await of
\* listTools, or the catch
ConnectSettles(outcome) ==
  /\ mgrPc = "connect"
  /\ LET c == Len(mgrMade) IN
       IF outcome.kind = "return"
       THEN /\ mgrPc' = "list"
            /\ mgrClients' = MapSet(mgrClients, [name |-> mgrMade[c].name, client |-> c])
            /\ mgrMade' = [mgrMade EXCEPT ![c].connected = TRUE,
                                          ![c].listCalls = @ + 1]
            /\ UNCHANGED <<mgrIndex, mgrTotal, mgrReturns, mgrResult>>
       ELSE /\ ConnectServerFailed(c, outcome.msg, mgrMade)
            /\ UNCHANGED mgrClients
  /\ UNCHANGED <<mgrConfigs, mgrCalls, mgrExec, mgrShutdown, tools>>
  /\ UNCHANGED outsideManager

\* `await client.listTools()` settles: lines 216-233, or the catch
ListSettles(outcome) ==
  /\ mgrPc = "list"
  /\ LET c == Len(mgrMade) IN
       IF outcome.kind = "return"
       THEN /\ tools' = RegisterDiscovered(tools, mgrMade[c].name, c, outcome.val, 1)
            /\ mgrReturns' = Append(mgrReturns,
                                    [client |-> c, count |-> Len(outcome.val), ok |-> TRUE,
                                     discovered |-> outcome.val])
            /\ EnterLoop(mgrConfigs, mgrIndex + 1, mgrTotal + Len(outcome.val), mgrMade)
       ELSE /\ ConnectServerFailed(c, outcome.msg, mgrMade)
            /\ UNCHANGED tools
  /\ UNCHANGED <<mgrConfigs, mgrClients, mgrCalls, mgrExec, mgrShutdown>>
  /\ UNCHANGED outsideManager

\* the client and the tool a registered handler closes over
HandlerClient(handler) ==
  CHOOSE c \in 1..Len(mgrMade) :
    \E t \in {"b_c", "c"} : McpHandler(c, t) = handler

HandlerTool(handler) ==
  CHOOSE t \in {"b_c", "c"} :
    \E c \in 1..Len(mgrMade) : McpHandler(c, t) = handler

\* registry.execute(name, input) for a discovered tool: the handler awaits
\* client.callTool(tool.name, input) and returns its result
ExecuteDiscovered(name, input, outcome) ==
  /\ mgrPc = "done"
  /\ Len(mgrCalls) < MaxToolCalls
  /\ RegistryHas(tools, name)
  /\ LET handler == RegistryGet(tools, name).handler
         c == HandlerClient(handler)
         t == HandlerTool(handler)
     IN /\ outcome \in CallOutcomes(mgrMade[c], t, input)
        /\ mgrCalls' = Append(mgrCalls, [client |-> c, tool |-> t, input |-> input])
        /\ mgrExec' = [name |-> name, input |-> input, outcome |-> outcome]
  /\ UNCHANGED <<mgrPc, mgrConfigs, mgrIndex, mgrTotal, mgrClients, mgrMade, mgrReturns,
                 mgrResult, mgrShutdown, tools>>
  /\ UNCHANGED outsideManager

\* disconnectAll()
DisconnectAll ==
  /\ mgrPc \in {"idle", "done"}
  /\ ~mgrShutdown
  /\ mgrMade' = [c \in 1..Len(mgrMade) |->
                   IF \E j \in 1..Len(mgrClients) : mgrClients[j].client = c
                   THEN ClientDisconnect(mgrMade[c])
                   ELSE mgrMade[c]]
  /\ mgrClients' = <<>>
  /\ mgrShutdown' = TRUE
  /\ UNCHANGED <<mgrPc, mgrConfigs, mgrIndex, mgrTotal, mgrReturns, mgrCalls, mgrExec,
                 mgrResult, tools>>
  /\ UNCHANGED outsideManager

InitManager ==
  /\ RegInit
  /\ EngIdle
  /\ RouteIdle
  /\ SrvIdle
  /\ CliIdle
  /\ OrchIdle
  /\ MgrIdle
  /\ ParIdle

NextManager ==
  \/ \E configs \in ConfigLists(MaxConfigs) : ConnectAll(configs)
  \/ \E outcome \in ConnectOutcomes : ConnectSettles(outcome)
  \/ \E outcome \in ListOutcomes : ListSettles(outcome)
  \/ \E name \in { McpToolName(n, t) : n \in {"a", "a_b"}, t \in {"b_c", "c"} },
        input \in ToolInputs,
        outcome \in UNION { CallOutcomes(mgrMade[c], t, i) :
                              c \in 1..Len(mgrMade), t \in {"b_c", "c"}, i \in ToolInputs } :
       ExecuteDiscovered(name, input, outcome)
  \/ DisconnectAll

SpecManager == InitManager /\ [][NextManager]_vars

\* ---------------------------------------------------------------------------
\* Properties of the MCP manager
\* ---------------------------------------------------------------------------

RECURSIVE DiscoveredBy(_)
\* the number of tools discovered from the providers that succeeded, over a
\* list of connectServer returns
DiscoveredBy(returns) ==
  IF returns = <<>> THEN 0
  ELSE (IF Head(returns).ok THEN Len(Head(returns).discovered) ELSE 0)
       + DiscoveredBy(Tail(returns))

\* the connectServer call of client c ended in its catch
ProviderFailed(c) == \E j \in 1..Len(mgrReturns) : mgrReturns[j].client = c /\ ~mgrReturns[j].ok

\* C13: a provider whose connect or tool discovery fails makes connectServer
\* return 0 and throw nothing, and no tool of it is registered; connectAll goes
\* through every config of the list, in order, and returns the number of tools
\* discovered from the providers that succeeded.
C13_ProviderFailureIsolated ==
  /\ mgrPc /= "rejected"
  /\ \A j \in 1..Len(mgrReturns) : ~mgrReturns[j].ok => mgrReturns[j].count = 0
  /\ \A j \in 1..Len(tools) : ~ProviderFailed(HandlerClient(tools[j].handler))
  /\ mgrPc \in {"connect", "list"} => mgrTotal = DiscoveredBy(mgrReturns)
  /\ mgrPc = "done" =>
       /\ Len(mgrReturns) = Len(mgrConfigs)
       /\ Len(mgrMade) = Len(mgrConfigs)
       /\ \A k \in 1..Len(mgrConfigs) :
            /\ mgrMade[k].name = mgrConfigs[k].name
            /\ mgrMade[k].transport = mgrConfigs[k].transport
            /\ mgrReturns[k].client = k
       /\ mgrResult = [kind |-> "result", total |-> DiscoveredBy(mgrReturns)]

\* connectAll is done: the first provider failed, the second one succeeded and
\* its tools were registered.
C13_Witness ==
  /\ mgrPc = "done"
  /\ Len(mgrReturns) = 2
  /\ ~mgrReturns[1].ok
  /\ mgrReturns[2].ok
  /\ mgrResult.total = 2

\* C14: a connectServer call whose connect succeeded calls listTools exactly
\* once (and one whose connect failed never calls it); when it returns with
\* the tools discovered from provider P, the registry has, for every
\* discovered tool t, an entry named mcp_P_t whose handler calls callTool(t, .)
\* of the client of this call; and an execution of a registered entry with
\* input x makes exactly that callTool(t, x) call and ends as that call ends.
C14_DiscoveryAndRegistration ==
  [][ /\ \A c \in 1..Len(mgrMade') :
           mgrMade'[c].listCalls = IF mgrMade'[c].connected THEN 1 ELSE 0
      /\ ( /\ mgrPc = "list"
           /\ Len(mgrReturns') = Len(mgrReturns) + 1
           /\ mgrReturns'[Len(mgrReturns')].ok )
         => LET r == mgrReturns'[Len(mgrReturns')]
                P == mgrMade[r.client].name
            IN \A j \in 1..Len(r.discovered) :
                 LET name == "mcp_" \o P \o "_" \o r.discovered[j] IN
                   /\ mgrMade[r.client].connected
                   /\ RegistryHas(tools', name)
                   /\ RegistryGet(tools', name).definition.name = name
                   /\ HandlerClient(RegistryGet(tools', name).handler) = r.client
                   /\ HandlerTool(RegistryGet(tools', name).handler) = r.discovered[j]
      /\ mgrExec' /= mgrExec =>
           LET handler == RegistryGet(tools, mgrExec'.name).handler IN
             /\ mgrCalls' = Append(mgrCalls,
                                   [client |-> HandlerClient(handler),
                                    tool |-> HandlerTool(handler),
                                    input |-> mgrExec'.input])
             /\ mgrExec'.outcome \in
                  CallOutcomes(mgrMade[HandlerClient(handler)], HandlerTool(handler),
                               mgrExec'.input)
    ]_vars

\* A provider's two tools were registered and one of them was executed
\* through the registry and returned the provider's result.
C14_Witness ==
  /\ mgrPc = "done"
  /\ \E j \in 1..Len(mgrReturns) :
       /\ mgrReturns[j].ok
       /\ mgrReturns[j].discovered = <<"b_c", "c">>
  /\ mgrExec /= None
  /\ mgrExec.outcome.kind = "return"
  /\ Len(mgrCalls) = 1

\* C19: after disconnectAll(), every connection opened by a connectServer
\* call made before it is disconnected (no child process spawned by a client
\* is still alive), the providers whose handshake or tool discovery failed and
\* the providers connected twice under one name included, and the client map
\* is empty.
C19_ShutdownReleasesAll ==
  mgrShutdown =>
    /\ \A c \in 1..Len(mgrMade) : mgrMade[c].process /= "alive"
    /\ mgrClients = <<>>

\* ---------------------------------------------------------------------------
\* context-manager.ts: executeParallelContexts
\* ---------------------------------------------------------------------------

MaxTasks == 3

\* the promise executeFreshContext(task...) returns, and how it settles:
\* runAgent returns its result, or runAgent throws and the catch rethrows
FreshRunning == [state |-> "running", value |-> <<>>]

FreshReturned(k) == [state |-> "returned", value |-> <<"result of task", ToString(k)>>]

\* runAgent left its loop without any text: it returns a result all the same,
\* with result ''
FreshReturnedNoText(k) == [state |-> "returned", value |-> <<"", ToString(k)>>]

FreshThrew(k) == [state |-> "threw", value |-> <<"error of task", ToString(k)>>]

FreshOutcomes(k) == {FreshReturned(k), FreshReturnedNoText(k), FreshThrew(k)}

\* an aggregate that waits for every run and resolves with the results of the
\* runs that returned
PromiseAllSettledOnly(runs, k) ==
  IF \A j \in 1..Len(runs) : runs[j].state /= "running"
  THEN LET ok == SelectSeq(runs, LAMBDA r : r.state = "returned") IN
         [kind |-> "result", results |-> [j \in 1..Len(ok) |-> ok[j].value]]
  ELSE None

\* `await Promise.all(promises)` once the promise of task k has settled, the
\* aggregate being still pending: None while it stays pending
PromiseAll(runs, k) ==
  IF runs[k].state = "threw"
  THEN [kind |-> "error", msg |-> runs[k].value]
  ELSE IF \A j \in 1..Len(runs) : runs[j].state = "returned"
       THEN [kind |-> "result", results |-> [j \in 1..Len(runs) |-> runs[j].value]]
       ELSE None

\* executeParallelContexts(tasks) with n tasks, up to `await Promise.all`
ExecuteParallelContexts(n) ==
  /\ parPc = "idle"
  /\ parRuns' = [k \in 1..n |-> FreshRunning]
  /\ parSettled' = <<>>
  /\ IF n = 0
     THEN /\ parPc' = "resolved"
          /\ parReturned' = [kind |-> "result", results |-> <<>>]
     ELSE /\ parPc' = "waiting"
          /\ parReturned' = None
  /\ UNCHANGED outsideParallel

\* the run of task k finishes: its promise settles, and the aggregate with it
\* when that settles Promise.all
FreshContextSettles(k, run) ==
  /\ parPc /= "idle"
  /\ k \in 1..Len(parRuns)
  /\ parRuns[k].state = "running"
  /\ run \in FreshOutcomes(k)
  /\ parRuns' = [parRuns EXCEPT ![k] = run]
  /\ parSettled' = Append(parSettled, k)
  /\ LET all == PromiseAll([parRuns EXCEPT ![k] = run], k) IN
       IF parPc = "waiting" /\ all /= None
       THEN /\ parPc' = IF all.kind = "result" THEN "resolved" ELSE "rejected"
            /\ parReturned' = all
       ELSE UNCHANGED <<parPc, parReturned>>
  /\ UNCHANGED outsideParallel

InitParallel ==
  /\ RegInit
  /\ EngIdle
  /\ RouteIdle
  /\ SrvIdle
  /\ CliIdle
  /\ OrchIdle
  /\ MgrIdle
  /\ ParIdle

NextParallel ==
  \/ \E n \in 0..MaxTasks : ExecuteParallelContexts(n)
  \/ \E k \in 1..MaxTasks : \E run \in FreshOutcomes(k) : FreshContextSettles(k, run)

SpecParallel == InitParallel /\ [][NextParallel]_vars

\* ---------------------------------------------------------------------------
\* Claims about executeParallelContexts
\* ---------------------------------------------------------------------------

ParTasks == 1..Len(parRuns)

ParThrown == { k \in ParTasks : parRuns[k].state = "threw" }

\* C15: executeParallelContexts resolves only when the run of every task has
\* finished, and then with exactly one result per task, in the order of the
\* tasks whatever the order the runs finished in; as soon as the run of any
\* task has thrown, the call is rejected with the error of a run that threw and
\* carries no results, whatever the other runs returned; and it never resolves
\* once a run has thrown.
C15_ParallelAllOrNothing ==
  /\ parPc = "resolved" =>
       /\ \A k \in ParTasks : parRuns[k].state = "returned"
       /\ parReturned.kind = "result"
       /\ Len(parReturned.results) = Len(parRuns)
       /\ \A k \in ParTasks : parReturned.results[k] = parRuns[k].value
  /\ ParThrown /= {} =>
       /\ parPc = "rejected"
       /\ parReturned.kind = "error"
       /\ "results" \notin DOMAIN parReturned
       /\ \E k \in ParThrown : parReturned.msg = parRuns[k].value
  /\ parPc = "rejected" => ParThrown /= {}
  /\ parPc = "waiting" => \E k \in ParTasks : parRuns[k].state = "running"

\* three runs that all finished, the last task first, one of them throwing
\* after another had returned: the call is rejected
C15_Witness ==
  /\ Len(parRuns) = 3
  /\ Len(parSettled) = 3
  /\ parSettled[1] = 3
  /\ parRuns[3].state = "returned"
  /\ parRuns[1].state = "threw"
  /\ parPc = "rejected"

====
